---- MODULE Spec2Model ----
(***************************************************************************)
(* OpenAPI-to-tool synthesis of the edgedelta MCP server (package tools,   *)
(* type Server): operation filtering, tool naming, input-schema synthesis  *)
(* and registration of the synthesized tools.                              *)
(*                                                                         *)
(* Go strings are modelled as sequences of one-character strings, so that  *)
(* case folding, the snake-case regular expression and the path clean-up   *)
(* are computed character by character.                                    *)
(***************************************************************************)
EXTENDS Integers, Sequences, FiniteSets, TLC

VARIABLES
    spec,         \* Server.spec: [Paths, Definitions]
    allowedTags,  \* Server.allowedTags (set of tags)
    pc,           \* position of CreateServer / generateTools
    pending,      \* keys of spec.Paths the range loop has not visited yet
    localTools,   \* generateTools: local variable tools (tools and their bound handlers)
    tools,        \* Server.tools / Server.handlers
    idx,          \* CreateServer: index of the range loop over srv.tools
    registered,   \* MCPServer tool table after AddTool: name -> tool
    runs,         \* tool lists produced by earlier completed generateTools runs
    str,          \* toSnakeCase: the argument
    out,          \* toSnakeCase: results of successive applications
    call,         \* executeOperation: the invocation in progress or last returned
    ncalls,       \* number of invocations started
    loadErr,      \* LoadSpec: the error it returned, if any
    built,        \* executeOperation applied to fixed inputs: the requests it built
    slots,        \* concurrent invocations: one record per handler goroutine
    pipes,        \* GetPipelines: its inputs and what it returned
    stdio         \* MCPServer.Start: Start, its listener goroutine, errC and ctx

vars == <<spec, allowedTags, pc, pending, localTools, tools, idx, registered, runs, str, out,
         call, ncalls, loadErr, built, slots, pipes, stdio>>

----------------------------------------------------------------------------
(* Bounds *)

MaxLen == 3     \* longest string handed to toSnakeCase in SpecSnake
MaxApply == 2   \* number of successive applications of toSnakeCase

----------------------------------------------------------------------------
(* Characters and strings *)

UpperSeq == <<"A", "B", "C", "D", "E", "F", "G", "H", "I", "J", "K", "L", "M",
              "N", "O", "P", "Q", "R", "S", "T", "U", "V", "W", "X", "Y", "Z">>
LowerSeq == <<"a", "b", "c", "d", "e", "f", "g", "h", "i", "j", "k", "l", "m",
              "n", "o", "p", "q", "r", "s", "t", "u", "v", "w", "x", "y", "z">>
Upper == {UpperSeq[i] : i \in 1..26}
Lower == {LowerSeq[i] : i \in 1..26}
Digit == {"0", "1", "2", "3", "4", "5", "6", "7", "8", "9"}

LowerChar(c) ==
    IF c \in Upper THEN LowerSeq[CHOOSE i \in 1..26 : UpperSeq[i] = c] ELSE c
UpperChar(c) ==
    IF c \in Lower THEN UpperSeq[CHOOSE i \in 1..26 : LowerSeq[i] = c] ELSE c

\* strings.ToLower / strings.ToUpper
ToLower(s) == [i \in 1..Len(s) |-> LowerChar(s[i])]
ToUpper(s) == [i \in 1..Len(s) |-> UpperChar(s[i])]

\* strings.EqualFold
EqualFold(s, t) == ToLower(s) = ToLower(t)

\* strings.ReplaceAll(s, old, new) for a one-character old
RECURSIVE ReplaceChar(_, _, _)
ReplaceChar(s, old, new) ==
    IF s = <<>> THEN <<>>
    ELSE (IF Head(s) = old THEN new ELSE <<Head(s)>>) \o ReplaceChar(Tail(s), old, new)

\* strings.Trim(s, "_")
RECURSIVE TrimLeft(_, _)
TrimLeft(s, c) == IF s # <<>> /\ Head(s) = c THEN TrimLeft(Tail(s), c) ELSE s
RECURSIVE TrimRight(_, _)
TrimRight(s, c) ==
    IF s # <<>> /\ s[Len(s)] = c THEN TrimRight(SubSeq(s, 1, Len(s) - 1), c) ELSE s
Trim(s, c) == TrimRight(TrimLeft(s, c), c)

\* strings.HasPrefix / strings.TrimPrefix
HasPrefix(s, p) == Len(s) >= Len(p) /\ SubSeq(s, 1, Len(p)) = p
TrimPrefix(s, p) == IF HasPrefix(s, p) THEN SubSeq(s, Len(p) + 1, Len(s)) ELSE s

Range(s) == {s[i] : i \in DOMAIN s}

\* An empty Go map
EmptyMap == [n \in {} |-> n]

----------------------------------------------------------------------------
(* Program constants *)

aiExclusionTag == <<"A", "I">>
refPrefix == <<"#", "/", "d", "e", "f", "i", "n", "i", "t", "i", "o", "n", "s", "/">>
orgIDParam == <<"o", "r", "g", "_", "i", "d">>

----------------------------------------------------------------------------
(* toSnakeCase *)

\* snakeCaseRegex.ReplaceAllString(s, "${1}_${2}") with the regular expression
\* ([a-z0-9])([A-Z]): leftmost non-overlapping matches, each two characters.
RECURSIVE SnakeRegexReplace(_)
SnakeRegexReplace(s) ==
    IF Len(s) < 2 THEN s
    ELSE IF s[1] \in (Lower \cup Digit) /\ s[2] \in Upper
         THEN <<s[1], "_", s[2]>> \o SnakeRegexReplace(SubSeq(s, 3, Len(s)))
         ELSE <<s[1]>> \o SnakeRegexReplace(Tail(s))

\* A variant that puts '_' in front of every upper-case letter and keeps the case.
RECURSIVE UnderscoreBeforeUpper(_)
UnderscoreBeforeUpper(s) ==
    IF s = <<>> THEN <<>>
    ELSE (IF Head(s) \in Upper THEN <<"_", Head(s)>> ELSE <<Head(s)>>)
         \o UnderscoreBeforeUpper(Tail(s))

toSnakeCase_keepCase(s) == UnderscoreBeforeUpper(ReplaceChar(s, " ", <<"_">>))

toSnakeCase(s) == ToLower(SnakeRegexReplace(ReplaceChar(s, " ", <<"_">>)))

----------------------------------------------------------------------------
(* String literals of the program *)

TString == <<"s", "t", "r", "i", "n", "g">>
TNumber == <<"n", "u", "m", "b", "e", "r">>
TInteger == <<"i", "n", "t", "e", "g", "e", "r">>
TBoolean == <<"b", "o", "o", "l", "e", "a", "n">>
ParameterPrefix == <<"P", "a", "r", "a", "m", "e", "t", "e", "r", ":", " ">>
GetPipelinesName == <<"g", "e", "t", "_", "p", "i", "p", "e", "l", "i", "n", "e", "s">>

----------------------------------------------------------------------------
(* Tool naming and description *)

\* The loop over operation.Tags of generateToolName: the first tag that is
\* not the filter marker, as a sequence of zero or one tags.
RECURSIVE FirstNameTag(_)
FirstNameTag(tags) ==
    IF tags = <<>> THEN <<>>
    ELSE IF ~EqualFold(Head(tags), aiExclusionTag) THEN <<Head(tags)>>
    ELSE FirstNameTag(Tail(tags))

\* The same loop with a case-sensitive comparison against the marker.
RECURSIVE FirstNameTagExact(_)
FirstNameTagExact(tags) ==
    IF tags = <<>> THEN <<>>
    ELSE IF Head(tags) # aiExclusionTag THEN <<Head(tags)>>
    ELSE FirstNameTagExact(Tail(tags))

\* The path-and-method fallback of generateToolName.
FallbackName(path, method) ==
    LET cleanPath == Trim(ReplaceChar(ReplaceChar(ReplaceChar(path, "/", <<"_">>),
                                                  "{", <<>>), "}", <<>>), "_")
    IN ToLower(method) \o <<"_">> \o toSnakeCase(cleanPath)

generateToolName_exactMarker(path, method, operation) ==
    IF FirstNameTagExact(operation.Tags) # <<>>
    THEN toSnakeCase(FirstNameTagExact(operation.Tags)[1])
    ELSE IF operation.OperationID # <<>> THEN toSnakeCase(operation.OperationID)
    ELSE FallbackName(path, method)

generateToolName(path, method, operation) ==
    IF FirstNameTag(operation.Tags) # <<>>
    THEN toSnakeCase(FirstNameTag(operation.Tags)[1])
    ELSE IF operation.OperationID # <<>> THEN toSnakeCase(operation.OperationID)
    ELSE FallbackName(path, method)

\* A variant of getDescription that prefers the summary.
getDescription_summaryFirst(path, method, operation) ==
    IF operation.Summary # <<>> THEN operation.Summary
    ELSE IF operation.Description # <<>> THEN operation.Description
    ELSE ToUpper(method) \o <<" ">> \o path

getDescription(path, method, operation) ==
    IF operation.Description # <<>> THEN operation.Description
    ELSE IF operation.Summary # <<>> THEN operation.Summary
    ELSE ToUpper(method) \o <<" ">> \o path

----------------------------------------------------------------------------
(* Input-schema synthesis.  A tool is [Name, Description, Properties,      *)
(* Required]; Properties maps a field name to [type, description, enum]    *)
(* (enum = <<>> when the key is absent), Required is InputSchema.Required. *)
(* A parameter's Schema pointer is a sequence of zero (nil) or one record. *)

\* mcp.WithString / WithNumber / WithBoolean with one property option: the
\* property schema is stored under its name, and a true "required" key is
\* moved from the property schema to InputSchema.Required.
PropOption(name, type, po) ==
    [Kind |-> "prop", Name |-> name, Type |-> type, Description |-> po.description,
     Enum |-> po.enum, Required |-> po.required]

withParam(param) ==
    [description |-> IF param.Description # <<>> THEN ParameterPrefix \o param.Name
                     ELSE param.Description,
     required |-> param.Required,
     enum |-> IF param.Schema # <<>> /\ Len(param.Schema[1].Enum) > 0
              THEN param.Schema[1].Enum ELSE <<>>]

withParamSchema(prop) ==
    [description |-> IF prop.Description # <<>> THEN ParameterPrefix \o prop.Type
                     ELSE prop.Description,
     required |-> FALSE,
     enum |-> IF Len(prop.Enum) > 0 THEN prop.Enum ELSE <<>>]

withRequired(names) == [Kind |-> "required", Names |-> names]

\* The type switch shared by addParameterToTool and withBodyParam.
SchemaType(t) ==
    IF t = TString THEN TString
    ELSE IF t \in {TInteger, TNumber} THEN TNumber
    ELSE IF t = TBoolean THEN TBoolean
    ELSE TString

\* The definition a body parameter refers to, as zero or one definition names.
ResolveRef(param, definitions) ==
    IF param.Schema = <<>> \/ param.Schema[1].Ref = <<>> THEN <<>>
    ELSE LET ref == TrimPrefix(param.Schema[1].Ref, refPrefix)
         IN IF ref \in DOMAIN definitions THEN <<ref>> ELSE <<>>

\* order: the order in which the range loop visits definition.Properties.
FlattenOptions(definition, order) ==
    [i \in 1..Len(order) |->
        PropOption(order[i], SchemaType(definition.Properties[order[i]].Type),
                   withParamSchema(definition.Properties[order[i]]))]

\* Variants of withBodyParam (see the claims that use them).
withBodyParam_paramRequired(param, definitions, order) ==
    LET r == ResolveRef(param, definitions)
    IN IF r = <<>> THEN <<PropOption(param.Name, TString, withParam(param))>>
       ELSE FlattenOptions(definitions[r[1]], order)
            \o <<withRequired(definitions[r[1]].Required
                              \o (IF param.Required THEN <<param.Name>> ELSE <<>>))>>

withBodyParam_dropUnresolved(param, definitions, order) ==
    LET r == ResolveRef(param, definitions)
    IN IF r = <<>> THEN <<>>
       ELSE FlattenOptions(definitions[r[1]], order)
            \o <<withRequired(definitions[r[1]].Required)>>

withBodyParam_requiredInLoop(param, definitions, order) ==
    LET r == ResolveRef(param, definitions)
    IN IF r = <<>> THEN <<PropOption(param.Name, TString, withParam(param))>>
       ELSE FlattenOptions(definitions[r[1]], order)
            \o <<withRequired(SelectSeq(order,
                     LAMBDA n : n \in Range(definitions[r[1]].Required)))>>

withBodyParam(param, definitions, order) ==
    LET r == ResolveRef(param, definitions)
    IN IF r = <<>> THEN <<PropOption(param.Name, TString, withParam(param))>>
       ELSE FlattenOptions(definitions[r[1]], order)
            \o <<withRequired(definitions[r[1]].Required)>>

\* paramType of addParameterToTool
ParamType(param) ==
    IF param.Type = <<>> /\ param.Schema # <<>> THEN param.Schema[1].Type ELSE param.Type

\* Variants of addParameterToTool (see the claims that use them).
addParameterToTool_noSkip(param, definitions, order) ==
    IF param.In = "body" THEN withBodyParam(param, definitions, order)
    ELSE <<PropOption(param.Name, SchemaType(ParamType(param)), withParam(param))>>

addParameterToTool_allStrings(param, definitions, order) ==
    IF EqualFold(param.Name, orgIDParam) THEN <<>>
    ELSE IF param.In = "body" THEN withBodyParam(param, definitions, order)
    ELSE <<PropOption(param.Name, TString, withParam(param))>>

\* The options addParameterToTool appends for one parameter.
addParameterToTool(param, definitions, order) ==
    IF EqualFold(param.Name, orgIDParam) THEN <<>>
    ELSE IF param.In = "body" THEN withBodyParam(param, definitions, order)
    ELSE <<PropOption(param.Name, SchemaType(ParamType(param)), withParam(param))>>

\* Applying one option to the tool under construction (mcp.NewTool).
ApplyOption(tool, o) ==
    IF o.Kind = "required"
    THEN [tool EXCEPT !.Required = @ \o o.Names]
    ELSE [tool EXCEPT
            !.Properties = (o.Name :> [type |-> o.Type, description |-> o.Description,
                                       enum |-> o.Enum]) @@ @,
            !.Required = IF o.Required THEN Append(@, o.Name) ELSE @]

RECURSIVE ApplyOptions(_, _)
ApplyOptions(tool, opts) ==
    IF opts = <<>> THEN tool ELSE ApplyOptions(ApplyOption(tool, Head(opts)), Tail(opts))

\* The order in which the property map of the definition a body parameter
\* resolves to is visited; orders maps each definition name to such an order.
OrderFor(param, definitions, orders) ==
    IF param.In = "body" /\ ResolveRef(param, definitions) # <<>>
    THEN orders[ResolveRef(param, definitions)[1]] ELSE <<>>

RECURSIVE ToolOptions(_, _, _)
ToolOptions(params, definitions, orders) ==
    IF params = <<>> THEN <<>>
    ELSE addParameterToTool(Head(params), definitions,
                            OrderFor(Head(params), definitions, orders))
         \o ToolOptions(Tail(params), definitions, orders)

\* createToolFromOperation: the tool, and the (path, method) its handler is bound to.
createToolFromOperation(path, method, operation, definitions, orders) ==
    [Tool |-> ApplyOptions([Name |-> generateToolName(path, method, operation),
                            Description |-> getDescription(path, method, operation),
                            Properties |-> EmptyMap, Required |-> <<>>],
                           ToolOptions(operation.Parameters, definitions, orders)),
     Path |-> path, Method |-> method]

----------------------------------------------------------------------------
(* Strings the input specifications are built from *)

PConf == <<"/", "v", "1", "/", "o", "r", "g", "s", "/", "{", "o", "r", "g", "_", "i", "d", "}", "/", "c", "o", "n", "f", "s", "/", "{", "c", "o", "n", "f", "_", "i", "d", "}">>
PItems == <<"/", "v", "1", "/", "i", "t", "e", "m", "s">>
PGroups == <<"/", "v", "1", "/", "u", "s", "e", "r", "G", "r", "o", "u", "p", "s", "/", "{", "i", "d", "}">>
MGet == <<"g", "e", "t">>
MPost == <<"p", "o", "s", "t">>
IdGetConf == <<"g", "e", "t", "C", "o", "n", "f">>
IdListItems == <<"l", "i", "s", "t", "I", "t", "e", "m", "s">>
IdSaveConf == <<"s", "a", "v", "e", "C", "o", "n", "f">>
IdSpaced == <<"l", "i", "s", "t", " ", "i", "t", "e", "m", "s">>
TagLowerAI == <<"a", "i">>
TagMixedAI == <<"A", "i">>
TagMyTag == <<"M", "y", " ", "T", "a", "g">>
TagUserGroups == <<"u", "s", "e", "r", "G", "r", "o", "u", "p", "s">>
TagFoo == <<"F", "o", "o">>
Doc == <<"d", "o", "c">>
Sum == <<"s", "u", "m">>
NConfId == <<"c", "o", "n", "f", "_", "i", "d">>
NLimit == <<"l", "i", "m", "i", "t">>
NBody == <<"b", "o", "d", "y">>
NOrgIdUpper == <<"O", "R", "G", "_", "I", "D">>
NA == <<"a">>
NB == <<"b">>
DConf == <<"C", "o", "n", "f">>
TArray == <<"a", "r", "r", "a", "y">>
RefConf == <<"#", "/", "d", "e", "f", "i", "n", "i", "t", "i", "o", "n", "s", "/", "C", "o", "n", "f">>
RefGone == <<"#", "/", "d", "e", "f", "i", "n", "i", "t", "i", "o", "n", "s", "/", "G", "o", "n", "e">>
RefBare == <<"C", "o", "n", "f">>
EnumX == <<"x">>
EnumY == <<"y">>

----------------------------------------------------------------------------
(* Input specifications *)

MaxOps == 2     \* largest number of operations in a specification of InitGen
MaxRuns == 2    \* number of times tool generation is run on the same input

Op(id, tags, desc, sum, params) ==
    [OperationID |-> id, Summary |-> sum, Description |-> desc, Tags |-> tags,
     Parameters |-> params]

Param(name, in, type, required, desc, schema) ==
    [Name |-> name, In |-> in, Type |-> type, Required |-> required,
     Description |-> desc, Schema |-> schema]

ParamSchema(type, enum, desc, ref) ==
    [Type |-> type, Enum |-> enum, Description |-> desc, Ref |-> ref]

\* A specification with the single operation op at (path, method).
SingleOpSpec(path, method, op, definitions) ==
    [Nil |-> FALSE, Paths |-> path :> (method :> op), Definitions |-> definitions]

\* The definition Conf: two properties, with each of the possible required lists.
ConfDefinition(required) ==
    [Type |-> <<"o", "b", "j", "e", "c", "t">>,
     Properties |-> (NA :> ParamSchema(TString, <<EnumX, EnumY>>, <<>>, <<>>))
                    @@ (NB :> ParamSchema(TInteger, <<>>, Doc, <<>>)),
     Required |-> required]

RequiredLists == {<<>>, <<NA>>, <<NA, NB>>, <<NB, NA>>}

DefinitionPool == {DConf :> ConfDefinition(r) : r \in RequiredLists}

\* Naming inputs: every combination of identifier, tags, path and method.
NameTagLists == {<<>>, <<aiExclusionTag>>, <<TagLowerAI>>, <<TagMixedAI, aiExclusionTag>>,
                 <<aiExclusionTag, TagMyTag>>, <<TagUserGroups, aiExclusionTag>>}

AllowedTagSets == {{}, {aiExclusionTag, TagLowerAI, TagMixedAI}, {TagUserGroups}}

NameOps == {Op(id, tags, desc, sum, <<>>) :
                id \in {<<>>, IdGetConf, IdSpaced}, tags \in NameTagLists,
                desc \in {<<>>, Doc}, sum \in {<<>>, Sum}}

\* Schema inputs: an optional organization parameter, an optional path or
\* query parameter and an optional body parameter, in this order.
OrgParts == {<<>>,
             <<Param(orgIDParam, "path", TString, TRUE, <<>>, <<>>)>>,
             <<Param(NOrgIdUpper, "path", TString, TRUE, Doc, <<>>)>>}

ScalarSchemas == {<<>>, <<ParamSchema(TInteger, <<>>, <<>>, <<>>)>>,
                  <<ParamSchema(TString, <<EnumX, EnumY>>, <<>>, <<>>)>>}

ScalarParts ==
    {<<>>} \cup
    {<<Param(IF in = "path" THEN NConfId ELSE NLimit, in, type, req, desc, sch)>> :
        in \in {"path", "query"},
        type \in {<<>>, TString, TInteger, TNumber, TBoolean, TArray},
        req \in BOOLEAN, desc \in {<<>>, Doc}, sch \in ScalarSchemas}

BodySchemas == {<<>>} \cup
    {<<ParamSchema(<<>>, <<>>, <<>>, ref)>> : ref \in {<<>>, RefConf, RefGone, RefBare}}

BodyParts ==
    {<<>>} \cup
    {<<Param(NBody, "body", <<>>, req, <<>>, sch)>> : req \in BOOLEAN, sch \in BodySchemas}

SynthOps == {Op(IdGetConf, <<aiExclusionTag>>, <<>>, Sum, o \o sc \o b) :
                o \in OrgParts, sc \in ScalarParts, b \in BodyParts}

\* Whole specifications: operations of a small pool at up to MaxOps of the
\* (path, method) slots.
GenOps == {Op(IdGetConf, <<aiExclusionTag>>, Doc, <<>>, <<>>),
           Op(IdListItems, <<aiExclusionTag, TagFoo>>, <<>>, Sum, <<>>),
           Op(IdSaveConf, <<aiExclusionTag, TagFoo>>, <<>>, <<>>,
              <<Param(NBody, "body", <<>>, TRUE, <<>>,
                      <<ParamSchema(<<>>, <<>>, <<>>, RefConf)>>)>>),
           Op(<<>>, <<>>, <<>>, <<>>, <<>>),
           Op(IdSpaced, <<TagFoo>>, <<>>, <<>>, <<>>)}

Slots == {<<PItems, MGet>>, <<PItems, MPost>>, <<PConf, MGet>>, <<PGroups, MGet>>}

\* The Paths map holding the operation f[k] at every slot k of keys.
PathsOf(keys, f) ==
    [p \in {k[1] : k \in keys} |->
        [m \in {k[2] : k \in {j \in keys : j[1] = p}} |-> f[<<p, m>>]]]

GenSpecs ==
    {[Nil |-> FALSE, Paths |-> PathsOf(keys, f),
      Definitions |-> DConf :> ConfDefinition(<<NA, NB>>)] :
        keys \in {ks \in SUBSET Slots : Cardinality(ks) \in 1..MaxOps},
        f \in [Slots -> GenOps]}


----------------------------------------------------------------------------
(* Values of an invocation *)

\* A decoded JSON argument (any): a string, a float64, a bool or nil.
StrV(s) == [T |-> "string", S |-> s, N |-> 0, B |-> FALSE]
NumV(n) == [T |-> "number", S |-> <<>>, N |-> n, B |-> FALSE]
BoolV(b) == [T |-> "bool", S |-> <<>>, N |-> 0, B |-> b]
NilV == [T |-> "nil", S |-> <<>>, N |-> 0, B |-> FALSE]

\* A context without values, and request.Params.Arguments that is no map.
NoCtx == [OrgID |-> <<>>, Token |-> <<>>]
NoArgs == [IsMap |-> FALSE, Map |-> EmptyMap]

\* No invocation in progress.
Idle ==
    [Phase |-> "idle", Name |-> <<>>, Path |-> <<>>, Method |-> <<>>, Ctx |-> NoCtx,
     Args |-> NoArgs, Request |-> <<>>, Sent |-> 0, Outcome |-> <<>>, Result |-> <<>>,
     Err |-> <<>>]

----------------------------------------------------------------------------
(* Specification SpecSnake: toSnakeCase applied to every short string *)

SnakeAlphabet == {"a", "B", "7", " ", "_"}

RECURSIVE StringsUpTo(_)
StringsUpTo(n) ==
    IF n = 0 THEN {<<>>}
    ELSE LET shorter == StringsUpTo(n - 1)
         IN shorter \cup {Append(s, c) : s \in {t \in shorter : Len(t) = n - 1}, c \in SnakeAlphabet}

EmptySpec == [Nil |-> TRUE, Paths |-> EmptyMap, Definitions |-> EmptyMap]
NoPending == [Paths |-> {}, Cur |-> <<>>, Methods |-> {}]

InitSnake ==
    /\ str \in StringsUpTo(MaxLen)
    /\ out = <<>>
    /\ spec = EmptySpec
    /\ allowedTags = {}
    /\ pc = "snake"
    /\ pending = NoPending
    /\ localTools = <<>>
    /\ tools = <<>>
    /\ idx = 0
    /\ registered = EmptyMap
    /\ runs = <<>>
    /\ call = Idle
    /\ ncalls = 0
    /\ loadErr = <<>>
    /\ built = {}
    /\ slots = <<>>
    /\ pipes = <<>>
    /\ stdio = <<>>

\* One call of toSnakeCase: on the argument first, then on its own output.
Normalize ==
    /\ pc = "snake"
    /\ Len(out) < MaxApply
    /\ out' = Append(out, toSnakeCase(IF out = <<>> THEN str ELSE out[Len(out)]))
    /\ UNCHANGED <<spec, allowedTags, pc, pending, localTools, tools, idx, registered, runs, str, call, ncalls, loadErr, built, slots, pipes, stdio>>

NextSnake == Normalize

SpecSnake == InitSnake /\ [][NextSnake]_vars

\* C3: toSnakeCase is idempotent: applying it to its own output returns that output.
SnakeIdempotent == Len(out) >= 2 => out[2] = out[1]

\* An input with a space and a lower-to-upper boundary has been normalised twice.
SnakeIdempotentWitness ==
    /\ Len(out) = 2
    /\ str = <<"a", "B", " ">>
    /\ out[1] = <<"a", "_", "b", "_">>

----------------------------------------------------------------------------
(* Specification Spec: CreateServer on a parsed specification              *)

\* hasAllowedTag: some tag of the operation is a key of s.allowedTags.
hasAllowedTag(tags, allowed) == \E i \in DOMAIN tags : tags[i] \in allowed

InitServer ==
    /\ pc = "create"
    /\ pending = NoPending
    /\ localTools = <<>>
    /\ tools = <<>>
    /\ idx = 0
    /\ registered = EmptyMap
    /\ runs = <<>>
    /\ str = <<>>
    /\ out = <<>>
    /\ call = Idle
    /\ ncalls = 0
    /\ loadErr = <<>>
    /\ built = {}
    /\ slots = <<>>
    /\ pipes = <<>>
    /\ stdio = <<>>

\* A nil specification
InitNil == spec = EmptySpec /\ allowedTags = {aiExclusionTag}

InitName ==
    /\ spec \in {SingleOpSpec(path, method, op, EmptyMap) :
                    path \in {PConf, PGroups}, method \in {MGet, MPost}, op \in NameOps}
    /\ allowedTags \in AllowedTagSets

InitSynth ==
    /\ spec \in {SingleOpSpec(PConf, MGet, op, defs) : op \in SynthOps, defs \in DefinitionPool}
    /\ allowedTags = {aiExclusionTag}

InitGen ==
    /\ spec \in GenSpecs
    /\ allowedTags \in {{}, {aiExclusionTag}, {TagFoo}}

Init == InitServer /\ (InitNil \/ InitName \/ InitSynth \/ InitGen)

\* The orders in which the property map of each definition can be visited.
PropertyOrders(definitions) ==
    {o \in [DOMAIN definitions -> UNION {[1..Cardinality(DOMAIN definitions[d].Properties)
                                              -> DOMAIN definitions[d].Properties]
                                          : d \in DOMAIN definitions}] :
        \A d \in DOMAIN definitions :
            /\ Len(o[d]) = Cardinality(DOMAIN definitions[d].Properties)
            /\ Range(o[d]) = DOMAIN definitions[d].Properties}

\* generateTools with s.spec == nil: ErrNoOpenAPISpec, CreateServer returns the error.
GenerateNoSpec ==
    /\ pc = "create"
    /\ spec.Nil
    /\ pc' = "failed"
    /\ UNCHANGED <<spec, allowedTags, pending, localTools, tools, idx, registered, runs, str, out, call, ncalls, loadErr, built, slots, pipes, stdio>>

\* newServer and the entry of generateTools.
GenerateStart ==
    /\ pc = "create"
    /\ ~spec.Nil
    /\ pc' = "generate"
    /\ pending' = [Paths |-> DOMAIN spec.Paths, Cur |-> <<>>, Methods |-> {}]
    /\ localTools' = <<>>
    /\ UNCHANGED <<spec, allowedTags, tools, idx, registered, runs, str, out, call, ncalls, loadErr, built, slots, pipes, stdio>>

\* One iteration of the outer range loop over s.spec.Paths begins.
NextPath ==
    /\ pc = "generate"
    /\ pending.Methods = {}
    /\ \E path \in pending.Paths :
        pending' = [Paths |-> pending.Paths \ {path}, Cur |-> path,
                    Methods |-> DOMAIN spec.Paths[path]]
    /\ UNCHANGED <<spec, allowedTags, pc, localTools, tools, idx, registered, runs, str, out, call, ncalls, loadErr, built, slots, pipes, stdio>>

\* One iteration of the inner range loop over the methods of the current path.
VisitOperation ==
    /\ pc = "generate"
    /\ \E method \in pending.Methods, orders \in PropertyOrders(spec.Definitions) :
        LET operation == spec.Paths[pending.Cur][method]
            created == createToolFromOperation(pending.Cur, method, operation,
                                               spec.Definitions, orders)
        IN /\ pending' = [pending EXCEPT !.Methods = @ \ {method}]
           /\ localTools' = IF hasAllowedTag(operation.Tags, allowedTags)
                               /\ created.Tool.Name # <<>>
                            THEN Append(localTools, created) ELSE localTools
    /\ UNCHANGED <<spec, allowedTags, pc, tools, idx, registered, runs, str, out, call, ncalls, loadErr, built, slots, pipes, stdio>>

\* Both loops are over: s.tools and s.handlers are set, generateTools returns nil.
GenerateReturn ==
    /\ pc = "generate"
    /\ pending.Methods = {} /\ pending.Paths = {}
    /\ tools' = localTools
    /\ runs' = Append(runs, localTools)
    /\ idx' = 1
    /\ pc' = "register"
    /\ UNCHANGED <<spec, allowedTags, pending, localTools, registered, str, out, call, ncalls, loadErr, built, slots, pipes, stdio>>

\* s.AddTool(tool, srv.handlers[i]): the tool table is keyed by the tool name.
AddTool ==
    /\ pc = "register"
    /\ idx <= Len(tools)
    /\ registered' = (tools[idx].Tool.Name :> tools[idx]) @@ registered
    /\ idx' = idx + 1
    /\ UNCHANGED <<spec, allowedTags, pc, pending, localTools, tools, runs, str, out, call, ncalls, loadErr, built, slots, pipes, stdio>>

ManualTool ==
    [Tool |-> [Name |-> GetPipelinesName, Description |-> <<>>,
               Properties |-> EmptyMap, Required |-> <<>>],
     Path |-> <<>>, Method |-> <<>>]

\* s.AddTool(GetPipelinesTool(srv.client)); CreateServer returns the server.
AddManualTool ==
    /\ pc = "register"
    /\ idx > Len(tools)
    /\ registered' = (GetPipelinesName :> ManualTool) @@ registered
    /\ pc' = "done"
    /\ UNCHANGED <<spec, allowedTags, pending, localTools, tools, idx, runs, str, out, call, ncalls, loadErr, built, slots, pipes, stdio>>

\* CreateServer is called again with the same specification and tags.
CreateAgain ==
    /\ pc = "done"
    /\ Len(runs) < MaxRuns
    /\ pc' = "create"
    /\ pending' = NoPending
    /\ localTools' = <<>>
    /\ tools' = <<>>
    /\ idx' = 0
    /\ registered' = EmptyMap
    /\ UNCHANGED <<spec, allowedTags, runs, str, out, call, ncalls, loadErr, built, slots, pipes, stdio>>

Next ==
    \/ GenerateNoSpec
    \/ GenerateStart
    \/ NextPath
    \/ VisitOperation
    \/ GenerateReturn
    \/ AddTool
    \/ AddManualTool
    \/ CreateAgain

Spec == Init /\ [][Next]_vars

----------------------------------------------------------------------------
(* Observations on the state *)

\* The operation a tool entry was created from.
OperationOf(e) == spec.Paths[e.Path][e.Method]

\* All (path, method) keys of the specification.
AllKeys == UNION {{<<p, m>> : m \in DOMAIN spec.Paths[p]} : p \in DOMAIN spec.Paths}

\* Tool entries the current run has produced so far.
Entries == Range(localTools)

TypeOK ==
    /\ pc \in {"load", "create", "failed", "generate", "register", "done", "snake", "build", "pipelines", "start"}
    /\ idx \in 0..(Len(tools) + 1)
    /\ Len(runs) <= MaxRuns

----------------------------------------------------------------------------
(* Tool naming *)

\* The path with '/', '{' and '}' removed.
StrippedPath(path) ==
    ReplaceChar(ReplaceChar(ReplaceChar(path, "/", <<>>), "{", <<>>), "}", <<>>)

\* The names the stated precedence admits for an operation: the identifier
\* (as written or normalized), else the first non-marker tag normalized, else
\* the method followed by the cleaned path.
PrecedenceNames(path, method, operation) ==
    IF operation.OperationID # <<>>
    THEN {operation.OperationID, toSnakeCase(operation.OperationID)}
    ELSE IF FirstNameTag(operation.Tags) # <<>>
    THEN {toSnakeCase(FirstNameTag(operation.Tags)[1])}
    ELSE {FallbackName(path, method), ToLower(method) \o StrippedPath(path),
          ToLower(method) \o <<"_">> \o StrippedPath(path)}

\* C1: every tool is named by the precedence operationId, then first
\* non-marker tag, then method and path; an operation with an operationId and
\* a non-marker tag is named after its operationId.
NameByIdentifierFirst ==
    \A e \in Entries : e.Tool.Name \in PrecedenceNames(e.Path, e.Method, OperationOf(e))

OnlyMarkerTags(operation) ==
    /\ operation.Tags # <<>>
    /\ \A i \in DOMAIN operation.Tags : EqualFold(operation.Tags[i], aiExclusionTag)

----------------------------------------------------------------------------
(* Filtering and registration *)

\* C4: the filter retains exactly the operations with a tag in the
\* allow-list, and every operation when the allow-list is empty.
FilterRetainsAllowed ==
    pc \in {"register", "done"} =>
        {<<tools[i].Path, tools[i].Method>> : i \in DOMAIN tools}
          = {k \in AllKeys :
                \/ allowedTags = {}
                \/ Range(spec.Paths[k[1]][k[2]].Tags) \cap allowedTags # {}}

RetainedKeys == {k \in AllKeys : hasAllowedTag(spec.Paths[k[1]][k[2]].Tags, allowedTags)}

DistinctOperationIDs ==
    \A j, k \in AllKeys :
        j # k => spec.Paths[j[1]][j[2]].OperationID # spec.Paths[k[1]][k[2]].OperationID

\* C5: with pairwise distinct operationIds, the number of registered
\* synthesized tools equals the number of retained operations.
NoToolLost ==
    (pc = "done" /\ DistinctOperationIDs) =>
        Cardinality({n \in DOMAIN registered : registered[n].Path # <<>>})
          = Cardinality(RetainedKeys)

----------------------------------------------------------------------------
(* Determinism *)

ToolsOf(run) == [i \in DOMAIN run |-> run[i].Tool]

Count(t, run) == Cardinality({i \in DOMAIN run : run[i].Tool = t})

\* C6 as stated: two runs yield identical tool lists, position by position.
RunsIdentical ==
    \A i, j \in DOMAIN runs : ToolsOf(runs[i]) = ToolsOf(runs[j])

\* C6 as amended: two runs yield the same tools, each field-for-field
\* identical and with the same multiplicity; only the positions may differ.
RunsSameTools ==
    \A i, j \in DOMAIN runs :
        \A e \in Range(runs[i]) \cup Range(runs[j]) :
            Count(e.Tool, runs[i]) = Count(e.Tool, runs[j])

\* Two runs listed the same two tools, one with a flattened body, in different orders.
RunsSameToolsWitness ==
    /\ Len(runs) = 2
    /\ Len(runs[1]) = 2
    /\ ToolsOf(runs[1]) # ToolsOf(runs[2])
    /\ \E e \in Range(runs[1]) : e.Tool.Required = <<NA, NB>>

----------------------------------------------------------------------------
(* Input schema *)

Definition(param) == spec.Definitions[ResolveRef(param, spec.Definitions)[1]]

\* C7: when the only parameter is a body parameter with a resolvable
\* definition, the schema's required set is the definition's required list,
\* whatever the body parameter's own required flag.
BodyRequiredFromDefinition ==
    \A e \in Entries :
        LET ps == OperationOf(e).Parameters
        IN (Len(ps) = 1 /\ ps[1].In = "body" /\ ResolveRef(ps[1], spec.Definitions) # <<>>)
            => Range(e.Tool.Required) = Range(Definition(ps[1]).Required)

\* A required body parameter whose definition requires only "a" was synthesized.
BodyRequiredFromDefinitionWitness ==
    \E e \in Entries :
        LET ps == OperationOf(e).Parameters
        IN /\ Len(ps) = 1 /\ ps[1].In = "body" /\ ps[1].Required
           /\ ps[1].Schema # <<>> /\ ps[1].Schema[1].Ref = RefConf
           /\ spec.Definitions[DConf].Required = <<NA>>
           /\ e.Tool.Required = <<NA>>

\* The type a parameter declares, and the schema type stated for it.
DeclaredType(param) ==
    IF param.Type # <<>> THEN param.Type
    ELSE IF param.Schema # <<>> THEN param.Schema[1].Type ELSE <<>>

StatedFieldType(t) ==
    CASE t = TString -> TString
      [] t = TInteger -> TNumber
      [] t = TNumber -> TNumber
      [] t = TBoolean -> TBoolean
      [] OTHER -> TString

\* C8: every path or query parameter other than the organization parameter
\* has a field of its name, of its declared type (string when unset or
\* unknown), required exactly when the parameter is required.
ScalarFieldPerParameter ==
    \A e \in Entries :
        LET ps == OperationOf(e).Parameters
        IN \A i \in DOMAIN ps :
            (ps[i].In \in {"path", "query"} /\ ~EqualFold(ps[i].Name, orgIDParam)) =>
                /\ ps[i].Name \in DOMAIN e.Tool.Properties
                /\ e.Tool.Properties[ps[i].Name].type = StatedFieldType(DeclaredType(ps[i]))
                /\ (ps[i].Name \in Range(e.Tool.Required)) <=> ps[i].Required

\* An optional integer query parameter became an optional number field.
ScalarFieldPerParameterWitness ==
    \E e \in Entries :
        LET ps == OperationOf(e).Parameters
        IN \E i \in DOMAIN ps :
            /\ ps[i].In = "query" /\ ps[i].Type = TInteger /\ ~ps[i].Required
            /\ ps[i].Name \in DOMAIN e.Tool.Properties
            /\ e.Tool.Properties[ps[i].Name].type = TNumber
            /\ ps[i].Name \notin Range(e.Tool.Required)

Unresolvable(param) ==
    \/ param.Schema = <<>>
    \/ param.Schema[1].Ref = <<>>
    \/ TrimPrefix(param.Schema[1].Ref, refPrefix) \notin DOMAIN spec.Definitions

\* C9: a body parameter without a schema reference, or whose reference names
\* an absent definition, still yields a tool, with one string field named
\* after the body parameter and no flattened property.
UnresolvedBodyIsString ==
    /\ \A e \in Entries :
        LET ps == OperationOf(e).Parameters
        IN \A i \in DOMAIN ps :
            (ps[i].In = "body" /\ Unresolvable(ps[i])) =>
                /\ ps[i].Name \in DOMAIN e.Tool.Properties
                /\ e.Tool.Properties[ps[i].Name].type = TString
                /\ \A d \in DOMAIN spec.Definitions :
                      DOMAIN spec.Definitions[d].Properties \cap DOMAIN e.Tool.Properties = {}
    /\ pc \in {"register", "done"} =>
        \A k \in RetainedKeys : \E i \in DOMAIN tools : <<tools[i].Path, tools[i].Method>> = k

\* A body parameter referring to the absent definition Gone became the field "body".
UnresolvedBodyIsStringWitness ==
    \E e \in Entries :
        LET ps == OperationOf(e).Parameters
        IN /\ Len(ps) = 1 /\ ps[1].In = "body"
           /\ ps[1].Schema # <<>> /\ ps[1].Schema[1].Ref = RefGone
           /\ DOMAIN e.Tool.Properties = {NBody}
           /\ e.Tool.Properties[NBody].type = TString

----------------------------------------------------------------------------
(* Invocation: strings and formatting *)

\* strings.Contains
RECURSIVE Contains(_, _)
Contains(s, sub) ==
    IF Len(s) < Len(sub) THEN FALSE
    ELSE HasPrefix(s, sub) \/ Contains(Tail(s), sub)

\* strings.ReplaceAll(s, old, new) for a non-empty old
RECURSIVE ReplaceAll(_, _, _)
ReplaceAll(s, old, new) ==
    IF Len(s) < Len(old) THEN s
    ELSE IF HasPrefix(s, old)
         THEN new \o ReplaceAll(SubSeq(s, Len(old) + 1, Len(s)), old, new)
         ELSE <<Head(s)>> \o ReplaceAll(Tail(s), old, new)

DigitSeq == <<"0", "1", "2", "3", "4", "5", "6", "7", "8", "9">>

\* fmt %d, and %v of a float64 that holds a small integer
RECURSIVE FormatNat(_)
FormatNat(n) ==
    IF n < 10 THEN <<DigitSeq[n + 1]>>
    ELSE FormatNat(n \div 10) \o <<DigitSeq[(n % 10) + 1]>>
FormatInt(n) == IF n < 0 THEN <<"-">> \o FormatNat(0 - n) ELSE FormatNat(n)

\* fmt %t
FormatBool(b) == IF b THEN <<"t", "r", "u", "e">> ELSE <<"f", "a", "l", "s", "e">>

\* fmt.Sprintf("%v", value)
FormatValue(v) ==
    CASE v.T = "string" -> v.S
      [] v.T = "number" -> FormatInt(v.N)
      [] v.T = "bool" -> FormatBool(v.B)
      [] OTHER -> <<"<", "n", "i", "l", ">">>

\* The orders in which a range loop can visit the keys of a map.
KeyOrders(keys) == {o \in [1..Cardinality(keys) -> keys] : Range(o) = keys}

----------------------------------------------------------------------------
(* Invocation: buildURL *)

apiURL == <<"h", "t", "t", "p", "s", ":", "/", "/", "a", "p", "i">>
OrgPlaceholder == <<"{", "o", "r", "g", "_", "i", "d", "}">>

\* The range loop of buildURL over args, visiting the keys in the given order.
RECURSIVE ReplacePlaceholders(_, _, _)
ReplacePlaceholders(fullURL, args, order) ==
    IF order = <<>> THEN fullURL
    ELSE LET key == Head(order)
             placeholder == <<"{">> \o key \o <<"}">>
         IN ReplacePlaceholders(
                IF Contains(fullURL, placeholder)
                THEN ReplaceAll(fullURL, placeholder, FormatValue(args[key]))
                ELSE fullURL,
                args, Tail(order))

\* A variant of buildURL that removes the braces that are left.
buildURL_stripBraces(path, args, order) ==
    ReplaceChar(ReplaceChar(ReplacePlaceholders(apiURL \o path, args, order), "{", <<>>),
                "}", <<>>)

buildURL(path, args, order) == ReplacePlaceholders(apiURL \o path, args, order)

\* executeOperation: the organization id of the context overrides args["org_id"].
InjectOrgID_keepCaller(path, ctx, args) ==
    IF Contains(path, OrgPlaceholder) /\ ctx.OrgID # <<>> /\ orgIDParam \notin DOMAIN args
    THEN (orgIDParam :> StrV(ctx.OrgID[1])) @@ args
    ELSE args

InjectOrgID(path, ctx, args) ==
    IF Contains(path, OrgPlaceholder) /\ ctx.OrgID # <<>>
    THEN (orgIDParam :> StrV(ctx.OrgID[1])) @@ args
    ELSE args

\* url.Parse inside http.NewRequestWithContext: a '%' must start a two-digit
\* hexadecimal escape.
HexDigit == Digit \cup {"a", "b", "c", "d", "e", "f", "A", "B", "C", "D", "E", "F"}
RECURSIVE ValidEscapes(_)
ValidEscapes(s) ==
    IF s = <<>> THEN TRUE
    ELSE IF Head(s) = "%"
         THEN Len(s) >= 3 /\ s[2] \in HexDigit /\ s[3] \in HexDigit
              /\ ValidEscapes(SubSeq(s, 4, Len(s)))
         ELSE ValidEscapes(Tail(s))

----------------------------------------------------------------------------
(* Invocation: request body *)

\* encoding/json: a string is quoted, '"' and '\' are escaped.
RECURSIVE JSONEscape(_)
JSONEscape(s) ==
    IF s = <<>> THEN <<>>
    ELSE (IF Head(s) \in {"\"", "\\"} THEN <<"\\", Head(s)>> ELSE <<Head(s)>>)
         \o JSONEscape(Tail(s))
JSONString(s) == <<"\"">> \o JSONEscape(s) \o <<"\"">>

JSONValue(v) ==
    CASE v.T = "string" -> JSONString(v.S)
      [] v.T = "number" -> FormatInt(v.N)
      [] v.T = "bool" -> FormatBool(v.B)
      [] OTHER -> <<"n", "u", "l", "l">>

\* encoding/json writes the keys of a map in sorted order.
AsciiSeq == DigitSeq \o UpperSeq \o <<"_">> \o LowerSeq
CharRank(c) == CHOOSE i \in DOMAIN AsciiSeq : AsciiSeq[i] = c
RECURSIVE StringLess(_, _)
StringLess(s, t) ==
    IF t = <<>> THEN FALSE
    ELSE IF s = <<>> THEN TRUE
    ELSE IF Head(s) = Head(t) THEN StringLess(Tail(s), Tail(t))
    ELSE CharRank(Head(s)) < CharRank(Head(t))
SortedKeys(keys) ==
    CHOOSE o \in KeyOrders(keys) : \A i \in 1..(Len(o) - 1) : StringLess(o[i], o[i + 1])

RECURSIVE JSONMembers(_, _)
JSONMembers(m, order) ==
    IF order = <<>> THEN <<>>
    ELSE JSONString(Head(order)) \o <<":">> \o JSONValue(m[Head(order)])
         \o (IF Len(order) > 1 THEN <<",">> ELSE <<>>) \o JSONMembers(m, Tail(order))

\* json.Marshal of a map[string]any
JSONMarshal(m) == <<"{">> \o JSONMembers(m, SortedKeys(DOMAIN m)) \o <<"}">>

requestBodyArgs(param, definitions) ==
    LET r == ResolveRef(param, definitions)
    IN IF r = <<>> THEN param.Name :> NilV
       ELSE [name \in DOMAIN definitions[r[1]].Properties |-> NilV]

\* A variant of BodyParam that copies every argument into the body.
BodyParam_allArgs(operation, definitions, args) ==
    LET body == SelectSeq(operation.Parameters, LAMBDA p : p.In = "body")
    IN IF body = <<>> THEN <<>>
       ELSE <<args @@ requestBodyArgs(body[1], definitions)>>

\* A variant of BodyParam that leaves out the keys without argument.
BodyParam_onlySupplied(operation, definitions, args) ==
    LET body == SelectSeq(operation.Parameters, LAMBDA p : p.In = "body")
    IN IF body = <<>> THEN <<>>
       ELSE <<[name \in DOMAIN requestBodyArgs(body[1], definitions) \cap DOMAIN args
                  |-> args[name]]>>

\* executeOperation: bodyParam of the first body parameter (nil when there is
\* none), its keys filled from args.
BodyParam(operation, definitions, args) ==
    LET body == SelectSeq(operation.Parameters, LAMBDA p : p.In = "body")
    IN IF body = <<>> THEN <<>>
       ELSE LET bodyParam == requestBodyArgs(body[1], definitions)
            IN <<[name \in DOMAIN bodyParam |->
                     IF name \in DOMAIN args THEN args[name] ELSE bodyParam[name]]>>

\* A variant that sends the string argument of an unresolved body parameter as
\* it is.
RequestBody_verbatim(operation, definitions, args) ==
    LET body == SelectSeq(operation.Parameters, LAMBDA p : p.In = "body")
    IN IF body = <<>> THEN <<>>
       ELSE IF ResolveRef(body[1], definitions) = <<>>
            THEN (IF body[1].Name \in DOMAIN args /\ args[body[1].Name].T = "string"
                  THEN <<args[body[1].Name].S>> ELSE <<>>)
            ELSE <<JSONMarshal(BodyParam(operation, definitions, args)[1])>>

\* executeOperation: requestBody, the marshalled bodyParam.
RequestBody(operation, definitions, args) ==
    LET bodyParam == BodyParam(operation, definitions, args)
    IN IF bodyParam = <<>> THEN <<>> ELSE <<JSONMarshal(bodyParam[1])>>

----------------------------------------------------------------------------
(* Invocation: query parameters, headers and results *)

\* The zero value of the Go type T.
Zero(T) ==
    CASE T = "number" -> NumV(0)
      [] T = "bool" -> BoolV(FALSE)
      [] OTHER -> StrV(<<>>)

\* optionalParam[T](request, p): the value and whether an error is returned.
optionalParam(args, p, T) ==
    IF p \notin DOMAIN args THEN [Value |-> Zero(T), Err |-> FALSE]
    ELSE IF args[p].T # T THEN [Value |-> Zero(T), Err |-> TRUE]
    ELSE [Value |-> args[p], Err |-> FALSE]

\* The switch of addQueryParameters: the value added for param, if any.
QueryValue(param, args) ==
    LET paramType == ParamType(param)
    IN IF paramType \in {TInteger, TNumber}
       THEN LET r == optionalParam(args, param.Name, "number")
            IN IF ~r.Err /\ r.Value.N # 0 THEN <<FormatValue(r.Value)>> ELSE <<>>
       ELSE IF paramType = TBoolean
       THEN LET r == optionalParam(args, param.Name, "bool")
            IN IF ~r.Err THEN <<FormatBool(r.Value.B)>> ELSE <<>>
       ELSE LET r == optionalParam(args, param.Name, "string")
            IN IF ~r.Err /\ r.Value.S # <<>> THEN <<r.Value.S>> ELSE <<>>

\* addQueryParameters: query.Add for every query parameter, in declaration
\* order; query maps a key to the list of its values.
RECURSIVE addQueryParameters(_, _, _)
addQueryParameters(query, parameters, args) ==
    IF parameters = <<>> THEN query
    ELSE LET param == Head(parameters)
             value == IF param.In = "query" THEN QueryValue(param, args) ELSE <<>>
             old == IF param.Name \in DOMAIN query THEN query[param.Name] ELSE <<>>
         IN addQueryParameters(
                IF value = <<>> THEN query ELSE (param.Name :> (old \o value)) @@ query,
                Tail(parameters), args)

\* strings.Cut(s, sep) for a one-character sep: the text before the first
\* sep and the text after it (all of s and nothing when sep does not occur).
IndexOf(s, c) ==
    IF \E i \in DOMAIN s : s[i] = c
    THEN CHOOSE i \in DOMAIN s : s[i] = c /\ \A j \in 1..(i - 1) : s[j] # c
    ELSE 0
CutBefore(s, c) == IF IndexOf(s, c) = 0 THEN s ELSE SubSeq(s, 1, IndexOf(s, c) - 1)
CutAfter(s, c) == IF IndexOf(s, c) = 0 THEN <<>> ELSE SubSeq(s, IndexOf(s, c) + 1, Len(s))

\* url.Parse: the fragment is cut off at the first '#', the query at the first
\* '?' of what remains; only the part in front of the '?' has its escapes
\* validated.
URLPath(rawURL) == CutBefore(CutBefore(rawURL, "#"), "?")
RawQuery(rawURL) == CutAfter(CutBefore(rawURL, "#"), "?")

\* url.QueryUnescape: '+' is a space and %XX is the byte XX; a byte that is
\* none of the listed characters is written as the escape itself.
PercentDecoded(h) ==
    CASE h = <<"2", "0">> -> " "
      [] h = <<"2", "6">> -> "&"
      [] h = <<"3", "D">> -> "="
      [] h = <<"3", "F">> -> "?"
      [] h = <<"7", "B">> -> "{"
      [] h = <<"7", "D">> -> "}"
      [] OTHER -> "%" \o h[1] \o h[2]
RECURSIVE QueryUnescape(_)
QueryUnescape(s) ==
    IF s = <<>> THEN <<>>
    ELSE IF Head(s) = "+" THEN <<" ">> \o QueryUnescape(Tail(s))
    ELSE IF Head(s) = "%"
         THEN <<PercentDecoded(SubSeq(s, 2, 3))>> \o QueryUnescape(SubSeq(s, 4, Len(s)))
         ELSE <<Head(s)>> \o QueryUnescape(Tail(s))

\* url.ParseQuery, as req.URL.Query() calls it: the pairs between '&', each
\* cut at its first '='; an empty pair, a pair with ';' and a pair with a
\* malformed escape are skipped.
RECURSIVE ParseQuery(_, _)
ParseQuery(query, m) ==
    IF query = <<>> THEN m
    ELSE LET pair == CutBefore(query, "&")
             rest == CutAfter(query, "&")
             key == CutBefore(pair, "=")
             value == CutAfter(pair, "=")
             k == QueryUnescape(key)
             old == IF k \in DOMAIN m THEN m[k] ELSE <<>>
         IN IF pair = <<>> \/ IndexOf(pair, ";") # 0 \/ ~ValidEscapes(pair)
            THEN ParseQuery(rest, m)
            ELSE ParseQuery(rest, (k :> Append(old, QueryUnescape(value))) @@ m)

\* req.URL.Query() of the request http.NewRequestWithContext made from rawURL
URLQuery(rawURL) == ParseQuery(RawQuery(rawURL), EmptyMap)

ContentTypeJSON == <<"a", "p", "p", "l", "i", "c", "a", "t", "i", "o", "n", "/", "j", "s", "o", "n">>

\* A variant of addAuthHeaders that sets the header without a token too.
addAuthHeaders_always(header, ctx) ==
    ("X-ED-API-Token" :> (IF ctx.Token # <<>> THEN ctx.Token[1] ELSE <<>>)) @@ header

\* addAuthHeaders: the header is set from the token of the context, if any.
addAuthHeaders(header, ctx) ==
    IF ctx.Token # <<>> THEN ("X-ED-API-Token" :> ctx.Token[1]) @@ header ELSE header

\* mcp.NewToolResultError / mcp.NewToolResultText
NewToolResultError(text) == [IsError |-> TRUE, Text |-> text]
NewToolResultText(text) == [IsError |-> FALSE, Text |-> text]

InvalidArguments == <<"i", "n", "v", "a", "l", "i", "d", " ", "a", "r", "g", "u", "m", "e", "n", "t", "s", " ", "f", "o", "r", "m", "a", "t">>
FailedToCreate == <<"f", "a", "i", "l", "e", "d", " ", "t", "o", " ", "c", "r", "e", "a", "t", "e", " ", "r", "e", "q", "u", "e", "s", "t", ":", " ">>
FailedToExecute == <<"f", "a", "i", "l", "e", "d", " ", "t", "o", " ", "e", "x", "e", "c", "u", "t", "e", " ", "r", "e", "q", "u", "e", "s", "t", ":", " ">>
FailedToRead == <<"f", "a", "i", "l", "e", "d", " ", "t", "o", " ", "r", "e", "a", "d", " ", "r", "e", "s", "p", "o", "n", "s", "e", ":", " ">>
APIError == <<"A", "P", "I", " ", "e", "r", "r", "o", "r", " ">>
InvalidURLEscape == <<"i", "n", "v", "a", "l", "i", "d", " ", "U", "R", "L", " ", "e", "s", "c", "a", "p", "e">>

\* executeOperation up to s.httpClient.Do(req): the request it built, or the
\* result it returned instead. order is the order in which buildURL visits args.
executeOperation(ctx, arguments, path, method, operation, definitions, order) ==
    IF ~arguments.IsMap
    THEN [Request |-> <<>>, Result |-> <<NewToolResultError(InvalidArguments)>>]
    ELSE LET args == InjectOrgID(path, ctx, arguments.Map)
             fullURL == buildURL(path, args, order)
             bodyParam == BodyParam(operation, definitions, args)
             requestBody == RequestBody(operation, definitions, args)
             header == addAuthHeaders(IF bodyParam # <<>>
                                      THEN "Content-Type" :> ContentTypeJSON
                                      ELSE EmptyMap, ctx)
         IN IF ~ValidEscapes(URLPath(fullURL))
            THEN [Request |-> <<>>,
                  Result |-> <<NewToolResultError(FailedToCreate \o InvalidURLEscape)>>]
            ELSE [Request |-> <<[Method |-> ToUpper(method), URL |-> fullURL,
                                 Header |-> header,
                                 Query |-> addQueryParameters(URLQuery(fullURL),
                                               operation.Parameters, args),
                                 Body |-> requestBody]>>,
                  Result |-> <<>>]

\* A variant that reports an error status only above 400.
ResultOf_above400(outcome) ==
    IF outcome.Kind = "transport" THEN NewToolResultError(FailedToExecute \o outcome.Err)
    ELSE IF outcome.Kind = "read" THEN NewToolResultError(FailedToRead \o outcome.Err)
    ELSE IF outcome.Status > 400
         THEN NewToolResultError(APIError \o FormatInt(outcome.Status) \o <<":", " ">>
                                 \o outcome.Body)
         ELSE NewToolResultText(outcome.Body)

\* executeOperation after s.httpClient.Do(req): the result for the outcome
\* of the request.
ResultOf(outcome) ==
    IF outcome.Kind = "transport" THEN NewToolResultError(FailedToExecute \o outcome.Err)
    ELSE IF outcome.Kind = "read" THEN NewToolResultError(FailedToRead \o outcome.Err)
    ELSE IF outcome.Status >= 400
         THEN NewToolResultError(APIError \o FormatInt(outcome.Status) \o <<":", " ">>
                                 \o outcome.Body)
         ELSE NewToolResultText(outcome.Body)

----------------------------------------------------------------------------
(* Specification SpecCall: a server is created and its tools are invoked *)

MaxCalls == 2   \* number of invocations

MPut == <<"p", "u", "t">>
IdAddItem == <<"a", "d", "d", "I", "t", "e", "m">>
NDryRun == <<"d", "r", "y", "R", "u", "n">>
NQ == <<"q">>
NTokenHeader == <<"X", "-", "E", "D", "-", "A", "P", "I", "-", "T", "o", "k", "e", "n">>

\* The served specifications hold one operation each: one with path and query
\* parameters, one with a body parameter that resolves to Conf, one with a
\* body parameter without schema.
OpGetConf ==
    Op(IdGetConf, <<aiExclusionTag>>, Doc, <<>>,
       <<Param(orgIDParam, "path", TString, TRUE, <<>>, <<>>),
         Param(NConfId, "path", TString, TRUE, <<>>, <<>>),
         Param(NLimit, "query", TInteger, FALSE, <<>>, <<>>),
         Param(NDryRun, "query", TBoolean, FALSE, <<>>, <<>>)>>)
OpSaveConf ==
    Op(IdSaveConf, <<aiExclusionTag>>, Doc, <<>>,
       <<Param(orgIDParam, "path", TString, TRUE, <<>>, <<>>),
         Param(NConfId, "path", TString, TRUE, <<>>, <<>>),
         Param(NBody, "body", <<>>, TRUE, <<>>, <<ParamSchema(<<>>, <<>>, <<>>, RefConf)>>)>>)
OpAddItem ==
    Op(IdAddItem, <<aiExclusionTag>>, Doc, <<>>,
       <<Param(NQ, "query", TString, FALSE, <<>>, <<>>),
         Param(NBody, "body", <<>>, TRUE, <<>>, <<>>)>>)

CallSpecs ==
    {SingleOpSpec(PConf, MGet, OpGetConf, DConf :> ConfDefinition(<<NA>>)),
     SingleOpSpec(PConf, MPut, OpSaveConf, DConf :> ConfDefinition(<<NA>>)),
     SingleOpSpec(PItems, MPost, OpAddItem, DConf :> ConfDefinition(<<NA>>))}

\* The values a caller supplies for an argument name.
ArgValues(name) ==
    CASE name = orgIDParam -> {StrV(<<"e", "v", "i", "l">>)}
      [] name = NConfId -> {StrV(<<"a", "b", "c">>), NumV(7), StrV(<<"%", "z", "z">>)}
      [] name = NLimit -> {NumV(0), NumV(5), StrV(<<"5">>)}
      [] name = NDryRun -> {BoolV(TRUE), BoolV(FALSE)}
      [] name = NQ -> {StrV(<<>>), StrV(<<"x">>)}
      [] name = NBody -> {StrV(<<"{", "\"", "a", "\"", ":", "1", "}">>)}
      [] name = NA -> {StrV(<<"x">>)}
      [] name = NB -> {NumV(5)}
      [] OTHER -> {StrV(<<"e", "v", "i", "l", "-", "t", "o", "k", "e", "n">>)}

\* The argument names a caller supplies to the operation at (path, method).
ArgNames(path, method) ==
    IF path = PItems THEN {NQ, NBody, NTokenHeader}
    ELSE IF method = MGet THEN {orgIDParam, NConfId, NLimit, NDryRun}
    ELSE {orgIDParam, NConfId, NA, NB}

\* Every map that gives some of the names one of their values.
RECURSIVE ArgMaps(_)
ArgMaps(names) ==
    IF names = {} THEN {EmptyMap}
    ELSE LET n == CHOOSE k \in names : TRUE
             rest == ArgMaps(names \ {n})
         IN rest \cup {(n :> v) @@ m : v \in ArgValues(n), m \in rest}

\* request.Params.Arguments: a map, or a value that is no map.
Arguments(path, method) ==
    {NoArgs} \cup {[IsMap |-> TRUE, Map |-> m] : m \in ArgMaps(ArgNames(path, method))}

\* The contexts of an invocation: with or without organization id and token.
Contexts ==
    {[OrgID |-> o, Token |-> t] : o \in {<<>>, <<<<"o", "r", "g", "-", "1">>>>}, t \in {<<>>, <<<<"t", "o", "k", "-", "1">>>>}}

\* What the upstream API and the transport can do with a request.
Statuses == {200, 399, 400, 404}
ResponseBodies == {<<>>, <<"{", "\"", "e", "r", "r", "o", "r", "\"", ":", "\"", "x", "\"", "}">>}
TransportErrs == {<<"E", "O", "F">>}
ReadErrs == {<<"u", "n", "e", "x", "p", "e", "c", "t", "e", "d", " ", "E", "O", "F">>}

InitCall ==
    /\ InitServer
    /\ spec \in CallSpecs
    /\ allowedTags = {aiExclusionTag}

\* A tools/call request for a generated tool: the handler bound by
\* generateTools runs executeOperation up to s.httpClient.Do(req).
CallTool ==
    /\ pc = "done"
    /\ call.Phase = "idle"
    /\ ncalls < MaxCalls
    /\ \E name \in DOMAIN registered \ {GetPipelinesName}, ctx \in Contexts :
        \E arguments \in Arguments(registered[name].Path, registered[name].Method) :
        \E order \in KeyOrders(DOMAIN InjectOrgID(registered[name].Path, ctx,
                                                  arguments.Map)) :
            LET e == registered[name]
                r == executeOperation(ctx, arguments, e.Path, e.Method,
                                      spec.Paths[e.Path][e.Method], spec.Definitions, order)
            IN call' = [Phase |-> IF r.Request = <<>> THEN "returned" ELSE "inflight",
                        Name |-> name, Path |-> e.Path, Method |-> e.Method,
                        Ctx |-> ctx, Args |-> arguments, Request |-> r.Request,
                        Sent |-> IF r.Request = <<>> THEN 0 ELSE 1,
                        Outcome |-> <<>>, Result |-> r.Result, Err |-> <<>>]
    /\ ncalls' = ncalls + 1
    /\ UNCHANGED <<spec, allowedTags, pc, pending, localTools, tools, idx, registered, runs, str, out, loadErr, built, slots, pipes, stdio>>

\* executeOperation returns the result for the outcome of s.httpClient.Do(req),
\* with a nil error.
Finish(outcome) ==
    /\ call' = [call EXCEPT !.Phase = "returned", !.Outcome = <<outcome>>,
                            !.Result = <<ResultOf(outcome)>>]
    /\ UNCHANGED <<spec, allowedTags, pc, pending, localTools, tools, idx, registered, runs, str, out, ncalls, loadErr, built, slots, pipes, stdio>>

\* A variant of TransportFails that sends the request again.
TransportFails_retry ==
    /\ call.Phase = "inflight"
    /\ call.Sent <= MaxCalls
    /\ call' = [call EXCEPT !.Sent = @ + 1]
    /\ UNCHANGED <<spec, allowedTags, pc, pending, localTools, tools, idx, registered, runs, str, out, ncalls, loadErr, built, slots, pipes, stdio>>

\* s.httpClient.Do(req) returns an error.
TransportFails ==
    /\ call.Phase = "inflight"
    /\ \E err \in TransportErrs :
        Finish([Kind |-> "transport", Status |-> 0, Body |-> <<>>, Err |-> err])

\* A variant of ReadFails that returns the error of io.ReadAll and no result.
ReadFails_returnsErr ==
    /\ call.Phase = "inflight"
    /\ \E status \in Statuses, err \in ReadErrs :
        call' = [call EXCEPT !.Phase = "returned", !.Err = <<err>>,
                             !.Outcome = <<[Kind |-> "read", Status |-> status,
                                            Body |-> <<>>, Err |-> err]>>]
    /\ UNCHANGED <<spec, allowedTags, pc, pending, localTools, tools, idx, registered, runs, str, out, ncalls, loadErr, built, slots, pipes, stdio>>

\* A response arrives, io.ReadAll(resp.Body) returns an error.
ReadFails ==
    /\ call.Phase = "inflight"
    /\ \E status \in Statuses, err \in ReadErrs :
        Finish([Kind |-> "read", Status |-> status, Body |-> <<>>, Err |-> err])

\* A response arrives and its body is read.
ResponseArrives ==
    /\ call.Phase = "inflight"
    /\ \E status \in Statuses, body \in ResponseBodies :
        Finish([Kind |-> "response", Status |-> status, Body |-> body, Err |-> <<>>])

\* The result has been handed to the MCP server; the invocation is over.
ReturnResult ==
    /\ call.Phase = "returned"
    /\ call' = Idle
    /\ UNCHANGED <<spec, allowedTags, pc, pending, localTools, tools, idx, registered, runs, str, out, ncalls, loadErr, built, slots, pipes, stdio>>

NextCall ==
    \/ GenerateStart
    \/ NextPath
    \/ VisitOperation
    \/ GenerateReturn
    \/ AddTool
    \/ AddManualTool
    \/ CallTool
    \/ TransportFails
    \/ ReadFails
    \/ ResponseArrives
    \/ ReturnResult

SpecCall == InitCall /\ [][NextCall]_vars

----------------------------------------------------------------------------
(* Path substitution *)

\* The position of the first '}' in s (s contains one).
FirstClose(s) == CHOOSE i \in DOMAIN s : s[i] = "}" /\ \A j \in 1..(i - 1) : s[j] # "}"

\* The names between braces in path.
RECURSIVE PlaceholderNames(_)
PlaceholderNames(path) ==
    IF path = <<>> THEN {}
    ELSE IF Head(path) = "{" /\ "}" \in Range(path)
         THEN {SubSeq(path, 2, FirstClose(path) - 1)}
              \cup PlaceholderNames(SubSeq(path, FirstClose(path) + 1, Len(path)))
         ELSE PlaceholderNames(Tail(path))

\* path read once from left to right, every {name} that values has replaced
\* by the string form of values[name].
RECURSIVE Substituted(_, _)
Substituted(path, values) ==
    IF path = <<>> THEN <<>>
    ELSE IF Head(path) = "{" /\ "}" \in Range(path)
         THEN LET close == FirstClose(path)
                  name == SubSeq(path, 2, close - 1)
              IN (IF name \in DOMAIN values THEN FormatValue(values[name])
                  ELSE SubSeq(path, 1, close))
                 \o Substituted(SubSeq(path, close + 1, Len(path)), values)
         ELSE <<Head(path)>> \o Substituted(Tail(path), values)

\* The arguments of the invocation, the organization id of the context in
\* the place of org_id when the context has one.
AmbientArgs ==
    IF call.Ctx.OrgID # <<>> THEN (orgIDParam :> StrV(call.Ctx.OrgID[1])) @@ call.Args.Map
    ELSE call.Args.Map

----------------------------------------------------------------------------
(* Missing context values *)

\* The context lacks a value the invoked operation needs: the organization
\* id for a path with {org_id}, the token for every operation.
ContextLacking ==
    \/ Contains(call.Path, OrgPlaceholder) /\ call.Ctx.OrgID = <<>>
    \/ call.Ctx.Token = <<>>

\* C12: an invocation whose context lacks the organization id its path needs,
\* or the token, returns a failure and sends no request; an org_id supplied by
\* the caller is not used instead.
ContextErrorWithoutRequest ==
    call.Phase # "idle" /\ ContextLacking =>
        /\ call.Sent = 0
        /\ call.Request = <<>>
        /\ call.Phase = "returned"
        /\ call.Result[1].IsError

----------------------------------------------------------------------------
(* Query string *)

\* The Go type addQueryParameters reads a parameter of the given type as.
GoType(paramType) ==
    IF paramType \in {TInteger, TNumber} THEN "number"
    ELSE IF paramType = TBoolean THEN "bool"
    ELSE "string"

\* The caller supplied a value of the parameter's type that is not its zero
\* value.
SuppliedNonZero(param) ==
    /\ param.Name \in DOMAIN call.Args.Map
    /\ call.Args.Map[param.Name].T = GoType(ParamType(param))
    /\ call.Args.Map[param.Name] # Zero(GoType(ParamType(param)))

\* C13: the query of a built request has the key of a declared query
\* parameter exactly when the caller supplied a non-zero value for it; an
\* absent parameter of any type, boolean included, adds no key, and a boolean
\* true is sent as "true".
QueryOnlyNonZero ==
    call.Request # <<>> =>
        \A param \in Range(spec.Paths[call.Path][call.Method].Parameters) :
            param.In = "query" =>
                /\ param.Name \in DOMAIN call.Request[1].Query <=> SuppliedNonZero(param)
                /\ SuppliedNonZero(param) /\ ParamType(param) = TBoolean =>
                       call.Request[1].Query[param.Name] = <<FormatBool(TRUE)>>

----------------------------------------------------------------------------
(* Request body and headers *)

\* The parameters of the invoked operation, and its body parameters.
CallParameters == spec.Paths[call.Path][call.Method].Parameters
CallBodyParameters == SelectSeq(CallParameters, LAMBDA p : p.In = "body")

\* C14: when the body parameter has no resolvable definition (a single string
\* field) and the caller supplied a string for it, the body of the request is
\* that string, character for character.
OpaqueBodyVerbatim ==
    /\ call.Request # <<>>
    /\ CallBodyParameters # <<>>
    /\ ResolveRef(CallBodyParameters[1], spec.Definitions) = <<>>
    /\ CallBodyParameters[1].Name \in DOMAIN call.Args.Map
    /\ call.Args.Map[CallBodyParameters[1].Name].T = "string"
    => call.Request[1].Body = <<call.Args.Map[CallBodyParameters[1].Name].S>>

\* The caller supplied none of the fields the body is built from.
NoBodyArgument ==
    \/ CallBodyParameters = <<>>
    \/ DOMAIN requestBodyArgs(CallBodyParameters[1], spec.Definitions)
           \cap DOMAIN call.Args.Map = {}

TokenFromContextOnly ==
    call.Request # <<>> =>
        IF call.Ctx.Token = <<>> THEN "X-ED-API-Token" \notin DOMAIN call.Request[1].Header
        ELSE /\ "X-ED-API-Token" \in DOMAIN call.Request[1].Header
             /\ call.Request[1].Header["X-ED-API-Token"] = call.Ctx.Token[1]

TokenFromContextOnlyWitness ==
    /\ call.Request # <<>>
    /\ NTokenHeader \in DOMAIN call.Args.Map
    /\ call.Ctx.Token = <<<<"t", "o", "k", "-", "1">>>>
    /\ call.Request[1].Header["X-ED-API-Token"] = <<"t", "o", "k", "-", "1">>

----------------------------------------------------------------------------
(* Results of an invocation *)

\* C17: a response with status 400 or more gives a failure whose text has the
\* status code and the body as received; a request that could not be delivered
\* gives a failure with another text, different from that of every error
\* response; a response with a status below 400 gives a success with the body.
FailuresClassified ==
    call.Phase = "returned" /\ call.Outcome # <<>> =>
        LET outcome == call.Outcome[1]
            result == call.Result[1]
        IN /\ outcome.Kind = "response" /\ outcome.Status >= 400 =>
                  /\ result.IsError
                  /\ result.Text = APIError \o FormatInt(outcome.Status) \o <<":", " ">>
                                   \o outcome.Body
           /\ outcome.Kind = "response" /\ outcome.Status < 400 =>
                  ~result.IsError /\ result.Text = outcome.Body
           /\ outcome.Kind = "transport" =>
                  /\ result.IsError
                  /\ result.Text = FailedToExecute \o outcome.Err
                  /\ \A status \in Statuses, body \in ResponseBodies :
                         result.Text # APIError \o FormatInt(status) \o <<":", " ">> \o body

FailuresClassifiedWitness ==
    /\ call.Phase = "returned"
    /\ call.Outcome # <<>>
    /\ call.Outcome[1].Kind = "response"
    /\ call.Outcome[1].Status = 400
    /\ call.Result[1] = NewToolResultError(<<"A", "P", "I", " ", "e", "r", "r", "o", "r", " ", "4", "0", "0", ":", " ", "{", "\"", "e", "r", "r", "o", "r", "\"", ":", "\"", "x", "\"", "}">>)

\* C18: an invocation sends at most one request: exactly one when a request
\* was built, none otherwise, and none after a failed one.
AtMostOneRequest ==
    /\ call.Sent <= 1
    /\ call.Phase # "idle" => (call.Sent = 1 <=> call.Request # <<>>)
    /\ call.Phase # "idle" =>
           (call.Request # <<>> <=>
                call.Args.IsMap /\ ValidEscapes(Substituted(call.Path, AmbientArgs)))

AtMostOneRequestWitness ==
    /\ call.Phase = "returned"
    /\ call.Outcome # <<>>
    /\ call.Outcome[1].Kind = "transport"
    /\ call.Sent = 1

\* The invocation ended in one of the failures of executeOperation.
InvocationFailed ==
    \/ ~call.Args.IsMap
    \/ call.Request = <<>>
    \/ call.Outcome # <<>> /\ call.Outcome[1].Kind \in {"transport", "read"}
    \/ call.Outcome # <<>> /\ call.Outcome[1].Status >= 400

\* C20: every failure of an invocation is returned as a failure result with a
\* nil error; the server goes on serving, with the tool list it had when it
\* was created.
FailuresAreResults ==
    /\ call.Phase = "returned" /\ InvocationFailed =>
           /\ call.Result # <<>>
           /\ call.Result[1].IsError
           /\ call.Err = <<>>
    /\ call.Phase # "idle" =>
           /\ pc = "done"
           /\ tools = runs[1]
           /\ {registered[n] : n \in DOMAIN registered \ {GetPipelinesName}} = Range(tools)

FailuresAreResultsWitness ==
    /\ call.Phase = "returned"
    /\ call.Outcome # <<>>
    /\ call.Outcome[1].Kind = "read"
    /\ call.Result[1].IsError
    /\ ncalls = MaxCalls
    /\ DOMAIN registered # {GetPipelinesName}

----------------------------------------------------------------------------
(* Specification SpecLoad: CreateServer loads the specification from a URL *)

\* The statuses other than 200 the fetch of the document is answered with.
FetchStatuses == {404, 500}

InitLoad ==
    /\ pc = "load"
    /\ spec = EmptySpec
    /\ allowedTags \in AllowedTagSets
    /\ pending = NoPending
    /\ localTools = <<>>
    /\ tools = <<>>
    /\ idx = 0
    /\ registered = EmptyMap
    /\ runs = <<>>
    /\ str = <<>>
    /\ out = <<>>
    /\ call = Idle
    /\ ncalls = 0
    /\ loadErr = <<>>
    /\ built = {}
    /\ slots = <<>>
    /\ pipes = <<>>
    /\ stdio = <<>>

\* retrieveOpenAPISpec returns an error (the fetch fails, the status is not
\* 200, or the body cannot be read); LoadSpec and CreateServer return it.
RetrieveFails ==
    /\ pc = "load"
    /\ \E e \in {[Kind |-> "fetch", Status |-> 0], [Kind |-> "read", Status |-> 200]}
               \cup {[Kind |-> "status", Status |-> s] : s \in FetchStatuses} :
        loadErr' = <<e>>
    /\ pc' = "failed"
    /\ UNCHANGED <<spec, allowedTags, pending, localTools, tools, idx, registered, runs, str, out, call, ncalls, built, slots, pipes, stdio>>

\* A variant of ParseFails that goes on with what was decoded.
ParseFails_ignored ==
    /\ pc = "load"
    /\ loadErr' = <<[Kind |-> "parse", Status |-> 200]>>
    /\ spec' \in GenSpecs
    /\ pc' = "create"
    /\ UNCHANGED <<allowedTags, pending, localTools, tools, idx, registered, runs, str, out, call, ncalls, built, slots, pipes, stdio>>

\* json.Unmarshal returns an error; LoadSpec and CreateServer return it.
ParseFails ==
    /\ pc = "load"
    /\ loadErr' = <<[Kind |-> "parse", Status |-> 200]>>
    /\ pc' = "failed"
    /\ UNCHANGED <<spec, allowedTags, pending, localTools, tools, idx, registered, runs, str, out, call, ncalls, built, slots, pipes, stdio>>

\* The document is fetched and decoded: s.spec is set, generateTools follows.
LoadSpec ==
    /\ pc = "load"
    /\ spec' \in GenSpecs
    /\ pc' = "create"
    /\ UNCHANGED <<allowedTags, pending, localTools, tools, idx, registered, runs, str, out, call, ncalls, loadErr, built, slots, pipes, stdio>>

NextLoad ==
    \/ RetrieveFails
    \/ ParseFails
    \/ LoadSpec
    \/ GenerateStart
    \/ NextPath
    \/ VisitOperation
    \/ GenerateReturn
    \/ AddTool
    \/ AddManualTool

SpecLoad == InitLoad /\ [][NextLoad]_vars

----------------------------------------------------------------------------
(* Tool description *)

----------------------------------------------------------------------------
(* Unmatched placeholders *)

\* The placeholders of the invoked path that name no argument.
MissingPlaceholders == PlaceholderNames(call.Path) \ DOMAIN AmbientArgs

\* C22: an invocation with a placeholder for which there is no argument
\* builds and sends its request, the placeholder text still in the URL, and
\* returns what the outcome of the request gives.
MissingPlaceholderSent ==
    /\ call.Phase # "idle"
    /\ call.Args.IsMap
    /\ MissingPlaceholders # {}
    /\ ValidEscapes(Substituted(call.Path, AmbientArgs))
    => /\ call.Request # <<>>
       /\ call.Sent = 1
       /\ \A name \in MissingPlaceholders :
              Contains(call.Request[1].URL, <<"{">> \o name \o <<"}">>)
       /\ call.Phase = "returned" =>
              /\ call.Outcome # <<>>
              /\ call.Outcome[1].Kind = "response" =>
                     call.Result[1].IsError = (call.Outcome[1].Status >= 400)
              /\ call.Outcome[1].Kind # "response" => call.Result[1].IsError

MissingPlaceholderSentWitness ==
    /\ call.Phase = "returned"
    /\ NConfId \in MissingPlaceholders
    /\ call.Request # <<>>
    /\ Contains(call.Request[1].URL, <<"{", "c", "o", "n", "f", "_", "i", "d", "}">>)
    /\ call.Outcome[1].Kind = "response"
    /\ call.Outcome[1].Status = 404
    /\ call.Result[1].IsError

----------------------------------------------------------------------------
(* The body as the upstream API decodes it *)

\* The position of the quote that closes the string starting at t[1].
RECURSIVE ClosingQuote(_, _)
ClosingQuote(t, i) ==
    IF t[i] = "\\" THEN ClosingQuote(t, i + 2)
    ELSE IF t[i] = "\"" THEN i
    ELSE ClosingQuote(t, i + 1)

RECURSIVE JSONUnescape(_)
JSONUnescape(s) ==
    IF s = <<>> THEN <<>>
    ELSE IF Head(s) = "\\" THEN <<s[2]>> \o JSONUnescape(SubSeq(s, 3, Len(s)))
    ELSE <<Head(s)>> \o JSONUnescape(Tail(s))

JSONPunctuation == {"{", "}", ":", ","}

\* The length of the literal (number, true, false, null) at the start of t.
RECURSIVE LiteralLen(_)
LiteralLen(t) ==
    IF t = <<>> \/ Head(t) \in JSONPunctuation THEN 0 ELSE 1 + LiteralLen(Tail(t))

\* The strings and literals of a JSON object without nesting, in order.
RECURSIVE JSONTokens(_)
JSONTokens(t) ==
    IF t = <<>> THEN <<>>
    ELSE IF Head(t) \in JSONPunctuation THEN JSONTokens(Tail(t))
    ELSE IF Head(t) = "\""
         THEN LET close == ClosingQuote(t, 2)
              IN <<[Kind |-> "string", Text |-> JSONUnescape(SubSeq(t, 2, close - 1))]>>
                 \o JSONTokens(SubSeq(t, close + 1, Len(t)))
         ELSE <<[Kind |-> "literal", Text |-> SubSeq(t, 1, LiteralLen(t))]>>
              \o JSONTokens(SubSeq(t, LiteralLen(t) + 1, Len(t)))

\* The object a JSON text without nesting stands for: key -> value token.
JSONObject(t) ==
    LET tokens == JSONTokens(t)
    IN [k \in {tokens[2 * i - 1].Text : i \in 1..(Len(tokens) \div 2)} |->
           tokens[2 * (CHOOSE i \in 1..(Len(tokens) \div 2) : tokens[2 * i - 1].Text = k)]]

\* The token a decoded argument is written as.
ValueToken(v) ==
    IF v.T = "string" THEN [Kind |-> "string", Text |-> v.S]
    ELSE [Kind |-> "literal", Text |-> JSONValue(v)]

\* The invoked operation has a body parameter that resolves to a definition.
BodyResolves ==
    /\ CallBodyParameters # <<>>
    /\ ResolveRef(CallBodyParameters[1], spec.Definitions) # <<>>

\* The properties of that definition.
BodyProperties ==
    DOMAIN spec.Definitions[ResolveRef(CallBodyParameters[1], spec.Definitions)[1]].Properties

\* C23: when the body parameter resolves to a definition, the body is a JSON
\* object that has every supplied property of the definition under its name
\* with the supplied value, and no key that is not a property of the
\* definition.
BodyFromDefinitionProperties ==
    call.Request # <<>> /\ BodyResolves =>
        /\ call.Request[1].Body # <<>>
        /\ Head(call.Request[1].Body[1]) = "{"
        /\ \A name \in BodyProperties \cap DOMAIN call.Args.Map :
               /\ name \in DOMAIN JSONObject(call.Request[1].Body[1])
               /\ JSONObject(call.Request[1].Body[1])[name]
                      = ValueToken(call.Args.Map[name])
        /\ DOMAIN JSONObject(call.Request[1].Body[1]) \subseteq BodyProperties

BodyFromDefinitionPropertiesWitness ==
    /\ call.Request # <<>>
    /\ BodyResolves
    /\ DOMAIN call.Args.Map = {orgIDParam, NConfId, NA, NB}
    /\ call.Request[1].Body = <<<<"{", "\"", "a", "\"", ":", "\"", "x", "\"", ",", "\"", "b", "\"", ":", "5", "}">>>>

\* C28: when the body parameter resolves to a definition, the keys of the
\* body are exactly the properties of the definition, and a property without
\* argument has the value null.
BodyHasEveryProperty ==
    call.Request # <<>> /\ BodyResolves =>
        /\ call.Request[1].Body # <<>>
        /\ DOMAIN JSONObject(call.Request[1].Body[1]) = BodyProperties
        /\ \A name \in BodyProperties \ DOMAIN call.Args.Map :
               JSONObject(call.Request[1].Body[1])[name]
                   = [Kind |-> "literal", Text |-> <<"n", "u", "l", "l">>]

BodyHasEveryPropertyWitness ==
    /\ call.Request # <<>>
    /\ BodyResolves
    /\ NA \in DOMAIN call.Args.Map
    /\ NB \notin DOMAIN call.Args.Map
    /\ call.Request[1].Body = <<<<"{", "\"", "a", "\"", ":", "\"", "x", "\"", ",", "\"", "b", "\"", ":", "n", "u", "l", "l", "}">>>>

----------------------------------------------------------------------------
(* Specification SpecBuild: executeOperation applied to fixed inputs, once
   for each order in which the range loop of buildURL can visit args *)

\* The values a caller supplies here: among them a value that holds the
\* placeholder of another argument and a value that holds '?' and '='.
BuildValues(name) ==
    CASE name = orgIDParam -> {StrV(<<"e", "v", "i", "l">>), StrV(<<"{", "c", "o", "n", "f", "_", "i", "d", "}">>)}
      [] name = NConfId -> {StrV(<<"a", "b", "c">>), StrV(<<"{", "o", "r", "g", "_", "i", "d", "}">>), StrV(<<"x", "?", "a", "d", "m", "i", "n", "=", "1">>)}
      [] name = NLimit -> {NumV(5), StrV(<<"{", "c", "o", "n", "f", "_", "i", "d", "}">>)}
      [] OTHER -> {BoolV(TRUE)}

RECURSIVE BuildArgMaps(_)
BuildArgMaps(names) ==
    IF names = {} THEN {EmptyMap}
    ELSE LET n == CHOOSE k \in names : TRUE
             rest == BuildArgMaps(names \ {n})
         IN rest \cup {(n :> v) @@ m : v \in BuildValues(n), m \in rest}

InitBuild ==
    /\ spec = SingleOpSpec(PConf, MGet, OpGetConf, EmptyMap)
    /\ allowedTags = {aiExclusionTag}
    /\ pc = "build"
    /\ pending = NoPending
    /\ localTools = <<>>
    /\ tools = <<>>
    /\ idx = 0
    /\ registered = EmptyMap
    /\ runs = <<>>
    /\ str = <<>>
    /\ out = <<>>
    /\ \E ctx \in Contexts, m \in BuildArgMaps({orgIDParam, NConfId, NLimit, NDryRun}) :
        call = [Idle EXCEPT !.Path = PConf, !.Method = MGet, !.Ctx = ctx,
                            !.Args = [IsMap |-> TRUE, Map |-> m]]
    /\ ncalls = 0
    /\ loadErr = <<>>
    /\ built = {}
    /\ slots = <<>>
    /\ pipes = <<>>
    /\ stdio = <<>>

\* executeOperation up to s.httpClient.Do(req), for one more visiting order
BuildRequest ==
    /\ pc = "build"
    /\ \E order \in KeyOrders(DOMAIN InjectOrgID(call.Path, call.Ctx, call.Args.Map)) :
        LET r == executeOperation(call.Ctx, call.Args, call.Path, call.Method,
                                  spec.Paths[call.Path][call.Method],
                                  spec.Definitions, order)
        IN /\ r \notin built
           /\ built' = built \cup {r}
    /\ UNCHANGED <<spec, allowedTags, pc, pending, localTools, tools, idx, registered, runs,
                   str, out, call, ncalls, loadErr, slots, pipes, stdio>>

NextBuild == BuildRequest

SpecBuild == InitBuild /\ [][NextBuild]_vars

\* The requests executeOperation built for the inputs
BuiltRequests == {r.Request[1] : r \in {b \in built : b.Request # <<>>}}

\* C26: for a fixed path and fixed arguments buildURL returns the same URL
\* whatever the order in which it visits the arguments, also when the value of
\* an argument holds the {name} token of another argument.
BuildURLDeterministic ==
    \A r1, r2 \in BuiltRequests : r1.URL = r2.URL

\* The names of the parameters the operation declares at the location
DeclaredIn(operation, location) ==
    {operation.Parameters[i].Name :
        i \in {j \in DOMAIN operation.Parameters : operation.Parameters[j].In = location}}

\* C27: every key of the outbound query string is the name of a parameter the
\* operation declares with location query; a path argument, whatever its
\* value, introduces no query key, and no path or body parameter is a key of
\* the query string.
QueryKeysDeclared ==
    \A r \in BuiltRequests :
        LET operation == spec.Paths[call.Path][call.Method]
        IN /\ DOMAIN r.Query \subseteq DeclaredIn(operation, "query")
           /\ DOMAIN r.Query \cap (DeclaredIn(operation, "path")
                                   \cup DeclaredIn(operation, "body")) = {}

----------------------------------------------------------------------------
(* Specification SpecPipelines: GetPipelines of package tools applied to the
   pipelines the backend returned and to the options of the caller *)

MaxPipelines == 3   \* most pipelines in the response of the backend

FleetRunning == "running"
FleetSuspended == "suspended"
defaultLimit == 5
maxLimit == 10

PipelineSummary(id, tag, updated, status) ==
    [ID |-> id, Tag |-> tag, Updated |-> updated, Status |-> status]

\* time.Now().UTC() is 2026-11-01T00:00:00.000Z; AddDate(0, 0, -lookbackDays)
\* formatted with URLTimeFormat, for the two lookbacks of the model.
Cutoff(lookbackDays) ==
    IF lookbackDays = 1 THEN <<"2", "0", "2", "6", "-", "1", "0", "-", "3", "1", "T", "0", "0", ":", "0", "0", ":", "0", "0", ".", "0", "0", "0", "Z">>
    ELSE <<"2", "0", "2", "6", "-", "1", "0", "-", "2", "5", "T", "0", "0", ":", "0", "0", ":", "0", "0", ".", "0", "0", "0", "Z">>

UFresh == <<"2", "0", "2", "6", "-", "1", "0", "-", "3", "1", "T", "0", "0", ":", "0", "0", ":", "0", "0", ".", "0", "0", "0", "Z">>
UMid == <<"2", "0", "2", "6", "-", "1", "0", "-", "2", "8", "T", "0", "0", ":", "0", "0", ":", "0", "0", ".", "0", "0", "0", "Z">>
UStale == <<"2", "0", "2", "6", "-", "1", "0", "-", "0", "1", "T", "0", "0", ":", "0", "0", ":", "0", "0", ".", "0", "0", "0", "Z">>
KProd == <<"p", "r", "o", "d">>

\* The pipelines of the organization
PipelinePool ==
    {PipelineSummary(<<"p", "1">>, <<"p", "r", "o", "d">>, UFresh, FleetRunning),
     PipelineSummary(<<"p", "2">>, <<"p", "r", "o", "d", "-", "e", "u">>, UStale, FleetRunning),
     PipelineSummary(<<"p", "3">>, <<"d", "e", "v">>, UMid, FleetRunning),
     PipelineSummary(<<"p", "4">>, <<"d", "e", "v">>, UFresh, FleetSuspended),
     PipelineSummary(<<"p", "5">>, <<"p", "r", "o", "d">>, <<>>, FleetRunning)}

\* The decoded response bodies: up to MaxPipelines distinct pipelines
PipelineLists ==
    UNION {{s \in [1..n -> PipelinePool] : \A i, j \in 1..n : s[i] = s[j] => i = j} :
              n \in 0..MaxPipelines}

\* The limit option as the caller wrote it
LimitStrings == {<<>>, <<"0">>, <<"2">>, <<"1", "0">>, <<"1", "1">>, <<"-", "1">>, <<"+", "1">>, <<"a", "b", "c">>, <<"2", "x">>}

\* strconv.Atoi for strings too short to overflow an int
DigitValue(c) == CHOOSE n \in 0..9 : DigitSeq[n + 1] = c
RECURSIVE NatOf(_)
NatOf(digits) ==
    IF digits = <<>> THEN 0
    ELSE 10 * NatOf(SubSeq(digits, 1, Len(digits) - 1)) + DigitValue(digits[Len(digits)])
Atoi(s) ==
    LET signed == s # <<>> /\ Head(s) \in {"+", "-"}
        digits == IF signed THEN Tail(s) ELSE s
    IN IF digits = <<>> \/ \E i \in DOMAIN digits : digits[i] \notin Digit
       THEN [Err |-> TRUE, N |-> 0]
       ELSE [Err |-> FALSE,
             N |-> IF signed /\ Head(s) = "-" THEN 0 - NatOf(digits) ELSE NatOf(digits)]

\* WithLimit and WithKeyword: an empty option adds nothing to the url.Values
WithLimit(limit, v) == IF limit # <<>> THEN ("limit" :> <<limit>>) @@ v ELSE v
WithKeyword(keyword, v) == IF keyword # <<>> THEN ("keyword" :> <<keyword>>) @@ v ELSE v
\* url.Values.Get
Get(v, key) == IF key \in DOMAIN v THEN v[key][1] ELSE <<>>

\* GetPipelines: limit, err := strconv.Atoi(limitStr) and the two branches
Limit(limitStr) ==
    IF Atoi(limitStr).Err THEN defaultLimit
    ELSE IF Atoi(limitStr).N > maxLimit THEN maxLimit
    ELSE Atoi(limitStr).N

\* sort.Slice(pipelines, Updated descending): the sort is not stable, so any
\* order without an ascending neighbour pair can come out.
SortedByUpdated(pipelines) ==
    {[i \in DOMAIN pipelines |-> pipelines[o[i]]] :
        o \in {p \in KeyOrders(DOMAIN pipelines) :
                 \A i \in 1..(Len(pipelines) - 1) :
                     ~StringLess(pipelines[p[i]].Updated, pipelines[p[i + 1]].Updated)}}

\* GetPipelines: the ids the first loop puts into forcedAdd
forcedAdd(pipelines, keyword) ==
    {pipelines[i].ID :
        i \in {j \in DOMAIN pipelines : keyword # <<>> /\ Contains(pipelines[j].Tag, keyword)}}

\* GetPipelines: the second loop
RECURSIVE returnPipelines(_, _, _, _)
returnPipelines(pipelines, keyword, forced, cutoff) ==
    IF pipelines = <<>> THEN <<>>
    ELSE LET pipeline == Head(pipelines)
             rest == returnPipelines(Tail(pipelines), keyword, forced, cutoff)
         IN IF pipeline.ID \in forced THEN <<pipeline>> \o rest
            ELSE IF keyword # <<>> /\ ~Contains(pipeline.Tag, keyword) THEN rest
            ELSE IF pipeline.Status = FleetSuspended \/ pipeline.Updated = <<>> THEN rest
            ELSE IF StringLess(pipeline.Updated, cutoff) THEN rest
            ELSE <<pipeline>> \o rest

PipelinesError == [Kind |-> "error", Pipelines |-> <<>>]

\* GetPipelines(ctx, client, lookbackDays, WithLimit(limit), WithKeyword(keyword))
\* for the outcome of the request and the sorted pipelines: an error, a list,
\* or the run-time panic of a slice expression with a negative bound.
GetPipelines(ctx, fetch, sorted, lookbackDays, limit, keyword) ==
    IF ctx.OrgID = <<>> \/ ctx.Token = <<>> THEN PipelinesError
    ELSE IF fetch # "ok" THEN PipelinesError
    ELSE LET queryValues == WithKeyword(keyword, WithLimit(limit, EmptyMap))
             kw == Get(queryValues, "keyword")
             lim == Limit(Get(queryValues, "limit"))
             ret == returnPipelines(sorted, kw, forcedAdd(sorted, kw), Cutoff(lookbackDays))
         IN IF Len(ret) > lim
            THEN IF lim < 0 THEN [Kind |-> "panic", Pipelines |-> <<>>]
                 ELSE [Kind |-> "list", Pipelines |-> SubSeq(ret, 1, lim)]
            ELSE [Kind |-> "list", Pipelines |-> ret]

\* What became of the request: answered with status 200 and a JSON list, not
\* sent, answered with another status, or answered with something else
FetchOutcomes == {"ok", "transport", "status", "decode"}

InitPipelines ==
    /\ spec = EmptySpec
    /\ allowedTags = {}
    /\ pc = "pipelines"
    /\ pending = NoPending
    /\ localTools = <<>>
    /\ tools = <<>>
    /\ idx = 0
    /\ registered = EmptyMap
    /\ runs = <<>>
    /\ str = <<>>
    /\ out = <<>>
    /\ call = Idle
    /\ ncalls = 0
    /\ loadErr = <<>>
    /\ built = {}
    /\ slots = <<>>
    /\ \/ \E p \in PipelineLists, limit \in LimitStrings, keyword \in {<<>>, KProd},
             lookbackDays \in {1, 7} :
             pipes = [Ctx |-> [OrgID |-> <<<<"o", "r", "g", "-", "1">>>>, Token |-> <<<<"t", "o", "k", "-", "1">>>>],
                      Fetch |-> "ok", Pipelines |-> p, LookbackDays |-> lookbackDays,
                      Limit |-> limit, Keyword |-> keyword, Ret |-> <<>>]
       \/ \E ctx \in Contexts, fetch \in FetchOutcomes :
             pipes = [Ctx |-> ctx, Fetch |-> fetch, Pipelines |-> <<>>, LookbackDays |-> 7,
                      Limit |-> <<>>, Keyword |-> <<>>, Ret |-> <<>>]
    /\ stdio = <<>>

\* One call of GetPipelines
CallGetPipelines ==
    /\ pc = "pipelines"
    /\ pipes.Ret = <<>>
    /\ \E sorted \in SortedByUpdated(pipes.Pipelines) :
        pipes' = [pipes EXCEPT !.Ret = <<GetPipelines(pipes.Ctx, pipes.Fetch, sorted,
                                                      pipes.LookbackDays, pipes.Limit,
                                                      pipes.Keyword)>>]
    /\ UNCHANGED <<spec, allowedTags, pc, pending, localTools, tools, idx, registered, runs,
                   str, out, call, ncalls, loadErr, built, slots, stdio>>

NextPipelines == CallGetPipelines

SpecPipelines == InitPipelines /\ [][NextPipelines]_vars

\* The integer L of the limit option: the parsed integer, 5 when the option is
\* absent or no integer
RequestedLimit == IF Atoi(pipes.Limit).Err THEN 5 ELSE Atoi(pipes.Limit).N

\* C29: get_pipelines never returns more than min(L, 10) pipelines, the
\* force-included ones counted, and for every integer L, zero and negative
\* values included, GetPipelines returns a list rather than failing.
PipelinesBounded ==
    (pipes.Ret # <<>> /\ pipes.Fetch = "ok" /\ pipes.Ctx.OrgID # <<>> /\ pipes.Ctx.Token # <<>>)
        => /\ pipes.Ret[1].Kind = "list"
           /\ Len(pipes.Ret[1].Pipelines) <= (IF RequestedLimit < 10 THEN RequestedLimit ELSE 10)

----------------------------------------------------------------------------
(* Specification SpecStart: MCPServer.Start on stdio, its listener goroutine,
   the channel errC and the context made by signal.NotifyContext *)

errCCapacity == 1

ServerError == <<"s", "e", "r", "v", "e", "r", " ", "e", "r", "r", "o", "r", ":", " ">>
ContextCanceled == <<"c", "o", "n", "t", "e", "x", "t", " ", "c", "a", "n", "c", "e", "l", "e", "d">>
\* The errors Listen returns on its own account
ListenErrs == {<<"E", "O", "F">>, <<"r", "e", "a", "d", " ", "e", "r", "r", "o", "r">>}

\* ctx.Done() of the context made by signal.NotifyContext is closed: the
\* parent context is cancelled, a signal arrived, or stop() was called.
CtxDone == stdio.Parent \/ stdio.Signal \/ stdio.Stopped

\* What came first, for the record kept in stdio.First: ctx was done
\* ("done"), or Listen's nil ("nil") or error ("err") was sent on errC.
Sent(v) == IF v = <<>> THEN "nil" ELSE "err"

\* Start is parked in its select statement and no case has fired yet
Parked == stdio.Main = "blocked" /\ stdio.Chosen = "none"

InitStart ==
    /\ spec = EmptySpec
    /\ allowedTags = {}
    /\ pc = "start"
    /\ pending = NoPending
    /\ localTools = <<>>
    /\ tools = <<>>
    /\ idx = 0
    /\ registered = EmptyMap
    /\ runs = <<>>
    /\ str = <<>>
    /\ out = <<>>
    /\ call = Idle
    /\ ncalls = 0
    /\ loadErr = <<>>
    /\ built = {}
    /\ slots = <<>>
    /\ pipes = <<>>
    /\ \E parent \in BOOLEAN :
        stdio = [Main |-> "start", Listener |-> "none", ErrC |-> <<>>,
                 Parent |-> parent, Signal |-> FALSE, Stopped |-> FALSE,
                 ListenRet |-> <<>>, Chosen |-> "none", Received |-> <<>>, Ret |-> <<>>,
                 First |-> IF parent THEN "done" ELSE "none", Log |-> <<>>]

StartUnchanged ==
    UNCHANGED <<spec, allowedTags, pc, pending, localTools, tools, idx, registered, runs,
                str, out, call, ncalls, loadErr, built, slots, pipes>>

\* Start: signal.NotifyContext, make(chan error, 1) and the go statement
StartListener ==
    /\ pc = "start"
    /\ stdio.Main = "start"
    /\ stdio' = [stdio EXCEPT !.Main = "log", !.Listener = "listening"]
    /\ StartUnchanged

\* Start: m.config.logger.Info("Edge Delta MCP Server running on stdio")
LogRunning ==
    /\ pc = "start"
    /\ stdio.Main = "log"
    /\ stdio' = [stdio EXCEPT !.Main = "select", !.Log = Append(@, "running")]
    /\ StartUnchanged

\* Start reaches the select statement: one of the ready cases is taken, any
\* of them when both are ready; with no case ready Start parks.
Select ==
    /\ pc = "start"
    /\ stdio.Main = "select"
    /\ \/ /\ ~CtxDone /\ stdio.ErrC = <<>>
          /\ stdio' = [stdio EXCEPT !.Main = "blocked"]
       \/ /\ CtxDone
          /\ stdio' = [stdio EXCEPT !.Main = "chose", !.Chosen = "done"]
       \/ /\ stdio.ErrC # <<>>
          /\ stdio' = [stdio EXCEPT !.Main = "chose", !.Chosen = "errC",
                                    !.Received = <<Head(stdio.ErrC)>>,
                                    !.ErrC = Tail(stdio.ErrC)]
    /\ StartUnchanged

\* Start: the body of the case that fired and the deferred stop()
ReturnFromStart ==
    /\ pc = "start"
    /\ stdio.Main \in {"chose", "blocked"}
    /\ stdio.Chosen # "none"
    /\ stdio' = [stdio EXCEPT
                    !.Main = "returned",
                    !.Stopped = TRUE,
                    !.Log = IF stdio.Chosen = "done" THEN Append(@, "shutting down") ELSE @,
                    !.Ret = IF stdio.Chosen = "errC" /\ stdio.Received[1] # <<>>
                            THEN <<<<ServerError \o stdio.Received[1][1]>>>>
                            ELSE <<<<>>>>]
    /\ StartUnchanged

\* The context handed to Start is cancelled; a parked Start is woken for the
\* case <-ctx.Done().
CancelParent ==
    /\ pc = "start"
    /\ stdio.Main # "returned"
    /\ ~stdio.Parent
    /\ stdio' = [stdio EXCEPT !.Parent = TRUE,
                              !.Chosen = IF Parked THEN "done" ELSE @,
                              !.First = IF @ = "none" THEN "done" ELSE @]
    /\ StartUnchanged

\* os.Interrupt or SIGTERM arrives while signal.NotifyContext is registered
SignalArrives ==
    /\ pc = "start"
    /\ stdio.Main \notin {"start", "returned"}
    /\ ~stdio.Signal
    /\ stdio' = [stdio EXCEPT !.Signal = TRUE,
                              !.Chosen = IF Parked THEN "done" ELSE @,
                              !.First = IF @ = "none" THEN "done" ELSE @]
    /\ StartUnchanged

\* m.stdioServer.Listen(ctx, in, out) returns: nil or an error of its own at
\* any time, nil or ctx.Err() once ctx is done.
ListenReturns ==
    /\ pc = "start"
    /\ stdio.Listener = "listening"
    /\ \E v \in {<<>>} \cup {<<e>> : e \in ListenErrs \cup {ContextCanceled}} :
        /\ v = <<ContextCanceled>> => CtxDone
        /\ stdio' = [stdio EXCEPT !.Listener = "send", !.ListenRet = <<v>>]
    /\ StartUnchanged

\* The goroutine: errC <- (what Listen returned). A parked Start takes the
\* value directly, otherwise it goes into the buffer if there is room.
Send ==
    /\ pc = "start"
    /\ stdio.Listener = "send"
    /\ \/ /\ Parked
          /\ stdio' = [stdio EXCEPT !.Listener = "done", !.Chosen = "errC",
                                    !.Received = stdio.ListenRet,
                                    !.First = IF @ # "none" THEN @
                                              ELSE Sent(stdio.ListenRet[1])]
       \/ /\ ~Parked
          /\ Len(stdio.ErrC) < errCCapacity
          /\ stdio' = [stdio EXCEPT !.Listener = "done",
                                    !.ErrC = Append(@, stdio.ListenRet[1]),
                                    !.First = IF @ # "none" THEN @
                                              ELSE Sent(stdio.ListenRet[1])]
    /\ StartUnchanged

NextStart ==
    \/ StartListener
    \/ LogRunning
    \/ Select
    \/ ReturnFromStart
    \/ CancelParent
    \/ SignalArrives
    \/ ListenReturns
    \/ Send

SpecStart == InitStart /\ [][NextStart]_vars

\* C30: Start returns nil when the cancellation or the signal came first or
\* when Listen returned nil, and the wrapped error when the error Listen
\* returned was on errC first; the send of the listener goroutine on errC
\* never blocks.
StartReturnValue ==
    /\ stdio.Main = "returned" =>
          stdio.Ret = IF stdio.First = "err"
                      THEN <<<<ServerError \o stdio.ListenRet[1][1]>>>>
                      ELSE <<<<>>>>
    /\ stdio.Listener = "send" => (Parked \/ Len(stdio.ErrC) < errCCapacity)

----------------------------------------------------------------------------
(* Specification SpecConc: a server is created and its tools are invoked by
   several handler goroutines at once; the context of an invocation can be
   cancelled while the invocation runs *)

MaxSlots == 2   \* number of invocations running at the same time

\* The served specification: two operations, so two tools
ConcSpec ==
    [Nil |-> FALSE,
     Paths |-> (PConf :> (MGet :> OpGetConf)) @@ (PItems :> (MPost :> OpAddItem)),
     Definitions |-> EmptyMap]

\* The arguments and the contexts of the concurrent invocations
ConcArguments(path) ==
    IF path = PConf
    THEN {[IsMap |-> TRUE, Map |-> NConfId :> StrV(<<"a", "b", "c">>)]}
    ELSE {[IsMap |-> TRUE, Map |-> (NQ :> StrV(<<"x">>)) @@ (NBody :> StrV(<<"{", "\"", "a", "\"", ":", "1", "}">>))]}
ConcContexts ==
    {[OrgID |-> <<<<"o", "r", "g", "-", "1">>>>, Token |-> <<<<"t", "o", "k", "-", "1">>>>],
     [OrgID |-> <<<<"o", "r", "g", "-", "2">>>>, Token |-> <<<<"t", "o", "k", "-", "2">>>>]}
ConcStatuses == {200, 404}

InitConc ==
    /\ InitServer
    /\ spec = ConcSpec
    /\ allowedTags = {aiExclusionTag}

ConcUnchanged ==
    UNCHANGED <<spec, allowedTags, pc, pending, localTools, tools, idx, registered, runs,
                str, out, call, ncalls, loadErr, built, pipes, stdio>>

\* The record of an invocation whose handler ran executeOperation up to
\* s.httpClient.Do(req) and got r; withContext tells whether the request was
\* made with the context of the invocation.
Slot(name, ctx, cancelled, arguments, r, withContext) ==
    [Phase |-> IF r.Request = <<>> THEN "returned" ELSE "inflight",
     Name |-> name, Path |-> registered[name].Path, Method |-> registered[name].Method,
     Ctx |-> ctx, Cancelled |-> cancelled, Args |-> arguments, Request |-> r.Request,
     WithContext |-> withContext /\ r.Request # <<>>, Outcome |-> <<>>,
     Result |-> r.Result]

\* What executeOperation builds for a request and a context alone
BuiltAlone(name, ctx, arguments, order) ==
    executeOperation(ctx, arguments, registered[name].Path, registered[name].Method,
                     spec.Paths[registered[name].Path][registered[name].Method],
                     spec.Definitions, order)

\* A variant that makes the request with http.NewRequest, without the context.
StartCall_background ==
    /\ pc = "done"
    /\ Len(slots) < MaxSlots
    /\ \E name \in DOMAIN registered \ {GetPipelinesName}, ctx \in ConcContexts,
          cancelled \in BOOLEAN :
        \E arguments \in ConcArguments(registered[name].Path) :
        \E order \in KeyOrders(DOMAIN InjectOrgID(registered[name].Path, ctx,
                                                  arguments.Map)) :
            slots' = Append(slots, Slot(name, ctx, cancelled, arguments,
                                        BuiltAlone(name, ctx, arguments, order), FALSE))
    /\ ConcUnchanged

\* A variant that keeps the context on the server: the handler reads the
\* context the server was given first.
StartCall_firstContext ==
    /\ pc = "done"
    /\ Len(slots) < MaxSlots
    /\ \E name \in DOMAIN registered \ {GetPipelinesName}, ctx \in ConcContexts,
          cancelled \in BOOLEAN :
        \E arguments \in ConcArguments(registered[name].Path) :
        \E order \in KeyOrders(DOMAIN InjectOrgID(registered[name].Path, ctx,
                                                  arguments.Map)) :
            LET kept == IF slots = <<>> THEN ctx ELSE slots[1].Ctx
            IN slots' = Append(slots, Slot(name, ctx, cancelled, arguments,
                                           BuiltAlone(name, kept, arguments, order), TRUE))
    /\ ConcUnchanged

\* A tools/call request arrives and its handler goroutine runs
\* executeOperation up to s.httpClient.Do(req) with the request and the context
\* of the request, a context that may be cancelled already; the request is
\* made with http.NewRequestWithContext(ctx, ...).
StartCall ==
    /\ pc = "done"
    /\ Len(slots) < MaxSlots
    /\ \E name \in DOMAIN registered \ {GetPipelinesName}, ctx \in ConcContexts,
          cancelled \in BOOLEAN :
        \E arguments \in ConcArguments(registered[name].Path) :
        \E order \in KeyOrders(DOMAIN InjectOrgID(registered[name].Path, ctx,
                                                  arguments.Map)) :
            slots' = Append(slots, Slot(name, ctx, cancelled, arguments,
                                        BuiltAlone(name, ctx, arguments, order), TRUE))
    /\ ConcUnchanged

\* The context of invocation i is cancelled while the invocation runs
Cancel(i) ==
    /\ i \in DOMAIN slots
    /\ slots[i].Phase = "inflight"
    /\ ~slots[i].Cancelled
    /\ slots' = [slots EXCEPT ![i].Cancelled = TRUE]
    /\ ConcUnchanged

\* The request of invocation i sees the cancellation of its context
Aborted(i) == slots[i].Cancelled /\ slots[i].WithContext

FinishSlot(i, outcome) ==
    /\ slots' = [slots EXCEPT ![i].Phase = "returned", ![i].Outcome = <<outcome>>,
                              ![i].Result = <<ResultOf(outcome)>>]
    /\ ConcUnchanged

\* s.httpClient.Do(req) returns an error: the context's once the context is
\* cancelled, one of the transport otherwise (the url.Error prefix is left out)
SlotTransportFails(i) ==
    /\ i \in DOMAIN slots
    /\ slots[i].Phase = "inflight"
    /\ \E err \in (IF Aborted(i) THEN {ContextCanceled} ELSE TransportErrs) :
        FinishSlot(i, [Kind |-> "transport", Status |-> 0, Body |-> <<>>, Err |-> err])

\* io.ReadAll(resp.Body) returns an error
SlotReadFails(i) ==
    /\ i \in DOMAIN slots
    /\ slots[i].Phase = "inflight"
    /\ \E err \in (IF Aborted(i) THEN {ContextCanceled} ELSE ReadErrs) :
        FinishSlot(i, [Kind |-> "read", Status |-> 200, Body |-> <<>>, Err |-> err])

\* The response is received and read to its end; a request whose context is
\* cancelled before that is aborted by the transport instead.
SlotResponse(i) ==
    /\ i \in DOMAIN slots
    /\ slots[i].Phase = "inflight"
    /\ ~Aborted(i)
    /\ \E status \in ConcStatuses :
        FinishSlot(i, [Kind |-> "response", Status |-> status, Body |-> <<>>,
                       Err |-> <<>>])

NextConc ==
    \/ GenerateStart
    \/ NextPath
    \/ VisitOperation
    \/ GenerateReturn
    \/ AddTool
    \/ AddManualTool
    \/ StartCall
    \/ \E i \in 1..MaxSlots : Cancel(i)
    \/ \E i \in 1..MaxSlots : SlotTransportFails(i)
    \/ \E i \in 1..MaxSlots : SlotReadFails(i)
    \/ \E i \in 1..MaxSlots : SlotResponse(i)

SpecConc == InitConc /\ [][NextConc]_vars

\* The transport ends a request whose context is cancelled: s.httpClient.Do
\* or the read of the body returns the error of the context.
FairConc ==
    \A i \in 1..MaxSlots :
        WF_vars(i \in DOMAIN slots /\ Aborted(i)
                   /\ (SlotTransportFails(i) \/ SlotReadFails(i)))

SpecConcFair == SpecConc /\ FairConc

\* What invocation i holds is what executeOperation yields for its own
\* request and context, and its result classifies its own outcome.
SlotAlone(i) ==
    /\ \E order \in KeyOrders(DOMAIN InjectOrgID(slots[i].Path, slots[i].Ctx,
                                                 slots[i].Args.Map)) :
          LET r == BuiltAlone(slots[i].Name, slots[i].Ctx, slots[i].Args, order)
          IN /\ slots[i].Request = r.Request
             /\ slots[i].Outcome = <<>> => slots[i].Result = r.Result
    /\ slots[i].Outcome # <<>> => slots[i].Result = <<ResultOf(slots[i].Outcome[1])>>

CancelFailure(i) ==
    /\ slots[i].Phase = "returned"
    /\ slots[i].Result # <<>>
    /\ slots[i].Result[1].IsError
    /\ slots[i].Request # <<>> =>
          /\ slots[i].Outcome[1].Kind \in {"transport", "read"}
          /\ slots[i].Outcome[1].Err = ContextCanceled

====
